---- MODULE Spec2Model ----
(***************************************************************************)
(* goru: the snapshot store (internal/store), its subscribers and the      *)
(* orchestrator tasks that write to it (internal/orchestrator).            *)
(*                                                                         *)
(* The specifications share the variables; the first five are (the others *)
(* are introduced with their actions):                                    *)
(*   Spec      the store API called one call at a time (each handler is    *)
(*             one step), nobody subscribed;                               *)
(*   SpecSubs  the same with subscribers coming, going and receiving;      *)
(*   SpecConc  the store API called from concurrent goroutines: a write is *)
(*             Load, Store, then one send per subscriber under the read    *)
(*             lock;                                                       *)
(*   SpecRead  a read (Load, then the accesses to the loaded bundle)       *)
(*             beside the concurrent writes;                               *)
(*   SpecOrch  the orchestrator's processing task (handleSnapshot) and its *)
(*             error monitor (monitorErrors) writing concurrently.         *)
(***************************************************************************)
EXTENDS Integers, Sequences, FiniteSets, TLC

VARIABLES
    current,      \* Store.current: the bundle the atomic pointer refers to
    subscribers,  \* Store.subscribers
    chans,        \* the contents of each subscriber channel
    nops,         \* store write calls started so far
    call,         \* the store write call made last (Spec)
    regd,         \* hosts passed to RegisterHosts so far
    snapd,        \* hosts for which UpdateSnapshot has returned so far
    lastChange,   \* per host, the latest non-empty change-set passed to
                  \* UpdateSnapshot (Nil if none)
    got,          \* per channel, the update its subscriber received last
    wpc,          \* per writer goroutine, where it is in its store call
    wop,          \* per writer goroutine, the call it is making
    wold,         \* per writer goroutine, its oldData (the loaded bundle)
    wsubs,        \* per writer goroutine, the subscribers its notification
                  \* loop has still to send to
    wowed,        \* per writer goroutine, the channels that were subscribed
                  \* with free capacity when it stored its bundle and have
                  \* not got its update
    rlock,        \* holders of Store.mu's read lock
    rpc,          \* where the reader is in its read
    rdata,        \* the reader's data (the loaded bundle)
    rview,        \* what the reader has read so far
    rseen,        \* the bundles that were in place during the read
    lastSnapshots,\* Orchestrator.lastSnapshots
    hpc,          \* where the processing task is in handleSnapshot
    hsnap,        \* the snapshot handleSnapshot is handling
    dold,         \* Compare's argument old (SpecDiff)
    dnew,         \* Compare's argument new (SpecDiff)
    dres,         \* what Compare returned (SpecDiff)
    emitted,      \* per source, the snapshots it has sent so far (SpecFanIn)
    schan,        \* per source, the contents of its snapshot channel
    fwd,          \* per source, the snapshot its fan-in goroutine has taken
                  \* from the channel and not yet passed on (Nil if none)
    ctxDone,      \* the context passed to Start is cancelled (SpecStart)
    spc,          \* per source, where the goroutine running its Collect is
    sret,         \* per source, what its Collect returned
    errCh,        \* Start's errCh: the errors sent and not yet received
    errClosed,    \* errCh is closed
    errLog,       \* every error sent on errCh so far, in order
    startRet,     \* what Start returned (NotReturned while it waits)
    paused,       \* Orchestrator.paused (SpecRefresh)
    ticking,      \* Orchestrator.interval is not 0: the ticker runs
    cpc,          \* where refreshController is
    ctodo,        \* the sources triggerAllSources has still to trigger
    orefresh,     \* the number of signals in Orchestrator.refreshCh
    hrefresh,     \* per source, the number of signals in
                  \* HTTPSource.refreshCh
    hcpc,         \* per source, where HTTPSource.Collect is
    owed,         \* per source, "owed" from a TriggerRefresh call until the
                  \* source begins a collection cycle, then "served"
    began,        \* per source, it has begun a collection cycle
    hist,         \* what has happened so far: "tick" (a tick was taken),
                  \* "ignored" (a tick was taken and ignored while paused),
                  \* "manual" (TriggerRefresh was called), "early" (it
                  \* was called before some Collect reached its select),
                  \* "dropped" (a TriggerRefresh call found o.refreshCh
                  \* full), "hdropped" (a source's TriggerRefresh found
                  \* h.refreshCh full)
    hstate,       \* where HTTPSource.Collect is (SpecHTTP)
    trig,         \* the number of signals in this source's refreshCh
    qnext,        \* collectAll: the index of the next target to queue
    workCh,       \* collectAll: the targets in workCh
    workClosed,   \* collectAll: workCh is closed
    wk,           \* collectAll: per worker, where it is and its target
    herrors,      \* HTTPSource.errors (Nil: no entry)
    snapCh,       \* the snapshots in the source's output channel
    snapClosed,   \* how many times the output channel has been closed
    fetched,      \* per target, the outcome of its fetch in the cycle
                  \* under way or last run: "none", "ok" or "fail"
    sentNow,      \* per target, the snapshots sent for it in that cycle
    triggered,    \* TriggerRefresh has been called on the source
    lateSend,     \* a snapshot was sent on the closed output channel
    currentErrors,\* monitorErrors: the copy GetErrors() returned, Nil when
                  \* the monitor is not between that call and UpdateError
    pollLog,      \* the outcomes of the target's polls so far (SpecRecover)
    pending,      \* the snapshot a worker has fetched and not yet sent
    mread,        \* the number of polls done when the monitor last read
    fpc,          \* where the source's fan-in goroutine is (SpecStop)
    mergedClosed, \* the merged channel is closed
    ppc,          \* where processSnapshots' loop is
    kpc,          \* where refreshController is
    epc,          \* where monitorErrors is
    follow,       \* FileSource.follow
    patterns,     \* FileSource.patterns
    disk,         \* the files on disk: size and mod-time of each path
    fileStates,   \* FileSource.fileStates: the last observation of each path
    gpc,          \* where the file source's Collect is
    gfiles,       \* files: what findFiles returned to the scan under way
    gidx,         \* the scan's position in files
    gsnap,        \* the snapshot readFile returned, not yet sent
    gout,         \* the file source's snapshots channel
    gclosed,      \* how many times that channel was closed
    glate,        \* a send on that channel happened after its close
    gret,         \* what the file source's Collect returned
    gread,        \* readFile calls on each path in the scan under way
    gemit,        \* snapshots sent for each path in the scan under way
    gres,         \* what the scan under way found of each path
    glast,        \* how the last readFile of each path ended
    lpc,          \* where Parse is: its loop, a peek at the next line, done
    inGoroutine,  \* Parse's inGoroutine
    currentState, \* Parse's currentState
    currentWait,  \* Parse's currentWait
    currentStack, \* Parse's currentStack
    currentCreatedBy, \* Parse's currentCreatedBy
    sgroups,      \* snapshot.Groups of the snapshot Parse builds
    held,         \* the line whose next line Parse is about to scan
    nread,        \* lines the scanner has returned
    lline,        \* the line the scanner returned last
    recs,         \* the goroutine headers among the lines returned
    bphase,       \* the cycle manual refreshes are counted against: under
                  \* way, over, or none
    later         \* cycles the source began after that cycle was over

svars == <<current, subscribers, chans, nops, call, regd, snapd, lastChange,
           got>>
wvars == <<wpc, wop, wold, wsubs, wowed, rlock>>
rvars == <<rpc, rdata, rview, rseen>>
ovars == <<lastSnapshots, hpc, hsnap, currentErrors>>
dvars == <<dold, dnew, dres>>
\* the variables the store's and the orchestrator's tasks never touch
fvars == <<emitted, schan, fwd>>
tvars == <<ctxDone, spc, sret, errCh, errClosed, errLog, startRet>>
cvars == <<paused, ticking, cpc, ctodo, orefresh, hrefresh, hcpc, owed, began,
           hist>>
hvars == <<hstate, trig, qnext, workCh, workClosed, wk, herrors, snapCh,
           snapClosed, fetched, sentNow, triggered, lateSend>>
\* the variables inside the sources
pvars == <<pollLog, pending, mread>>
gvars == <<follow, patterns, disk, fileStates, gpc, gfiles, gidx, gsnap, gout,
           gclosed, glate, gret, gread, gemit, gres, glast>>
lvars == <<lpc, inGoroutine, currentState, currentWait, currentStack,
           currentCreatedBy, sgroups, held, nread, lline, recs>>
xvars == <<hvars, pvars, gvars, lvars>>
zvars == <<fpc, mergedClosed, ppc, kpc, epc>>
\* the bookkeeping of one source's cycles
bvars == <<bphase, later>>
evars == <<dvars, fvars, tvars, cvars, xvars, zvars, bvars>>
vars == <<svars, wvars, rvars, ovars, evars>>

\* ------------------------------------------------------------------ bounds
\* Store write calls made in one behaviour of Spec.
MaxOps == 3
\* Store write calls made in one behaviour of SpecSubs.
MaxSubOps == 2
\* Store write calls started in one behaviour of SpecConc.
MaxConcOps == 2
\* Capacity of a subscriber channel (make(chan Update, n) at the caller).
ChanCap == 1
\* Snapshot timestamps range over 1..MaxTime.
MaxTime == 1
\* Store write calls the orchestrator's tasks start in one behaviour of
\* SpecOrch.
MaxOrchOps == 3
\* The source's snapshot timestamps range over 1..MaxOrchTime.
MaxOrchTime == 2
\* A group's Count ranges over 1..MaxCount in the snapshots compared.
MaxCount == 2
\* Snapshots each source sends in one behaviour of SpecFanIn.
MaxEmit == 2
\* Capacity of a source's snapshot channel in the model.
SrcChanCap == 2
\* Capacity of the HTTP source's output channel in SpecHTTP.
SnapCap == 1
\* Polls of the target in one behaviour of SpecRecover.
MaxPolls == 2

\* ------------------------------------------------------------ value domains
Hosts == {"a", "b", "c"}
\* the hosts written in the specifications with subscribers
SubHosts == {"a", "b"}
Chans == {"ch1", "ch2"}
\* the goroutines writing to the store concurrently
Writers == {"w1", "w2"}

\* A nil pointer / nil error / absent result.
Nil == [nil |-> TRUE]

\* error values: two distinct error objects may carry the same text.
Errs == {[obj |-> 1, text |-> "timeout"],
         [obj |-> 2, text |-> "timeout"],
         [obj |-> 3, text |-> "status 500"]}
ErrText(e) == e.text

EmptyMap == [x \in {} |-> Nil]

\* model.Snapshot
Snapshot(h, t) == [Host |-> h, TakenAt |-> t, Groups |-> EmptyMap]
SnapshotInputs(hs) == {Snapshot(h, t) : h \in hs, t \in 1..MaxTime}

\* model.ChangeSet (Timestamp is the wall clock and is left out)
ChangeSet(h, added, removed, updated) ==
    [Host |-> h, Added |-> added, Removed |-> removed, Updated |-> updated]
IsEmpty(c) ==
    Cardinality(c.Added) = 0 /\ Cardinality(c.Removed) = 0
        /\ Cardinality(DOMAIN c.Updated) = 0
\* The change-sets a caller passes with a snapshot of host h: nil, an empty
\* one, and two different non-empty ones.
ChangeInputs(h) ==
    {Nil,
     ChangeSet(h, {}, {}, EmptyMap),
     ChangeSet(h, {"g1"}, {}, EmptyMap),
     ChangeSet(h, {}, {"g2"}, EmptyMap)}

\* The snapshots and change-sets written in the specifications with
\* subscribers: one snapshot per host; nil, an empty and a non-empty change.
SubSnapshots == {Snapshot(h, 1) : h \in SubHosts}
SubChanges(h) ==
    {Nil, ChangeSet(h, {}, {}, EmptyMap), ChangeSet(h, {"g1"}, {}, EmptyMap)}

\* store.Update
Update(h, snap, cs, err) ==
    [Host |-> h, Snapshot |-> snap, ChangeSet |-> cs, Error |-> err]

\* ---------------------------------------------------------------- helpers
Range(s) == {s[i] : i \in 1..Len(s)}
\* m[k] = v in a Go map
Put(m, k, v) == [x \in DOMAIN m \cup {k} |-> IF x = k THEN v ELSE m[x]]

\* ------------------------------------------------------------- storeData
\* store.New: the initial empty bundle
New == [hosts |-> {}, snapshots |-> EmptyMap, changes |-> EmptyMap,
        errors |-> EmptyMap]

\* RegisterHosts: the bundle built from oldData
RegisterData(old, hs) == [old EXCEPT !.hosts = old.hosts \cup hs]

\* UpdateSnapshot without the line that clears the host's error
SnapshotData_KeepError(old, snap, cs) ==
    [old EXCEPT
        !.snapshots = Put(old.snapshots, snap.Host, snap),
        !.changes = IF cs # Nil /\ ~IsEmpty(cs)
                    THEN Put(old.changes, snap.Host, cs)
                    ELSE old.changes]

\* UpdateSnapshot storing every non-nil change-set, empty ones too
SnapshotData_StoreEmpty(old, snap, cs) ==
    [old EXCEPT
        !.snapshots = Put(old.snapshots, snap.Host, snap),
        !.changes = IF cs # Nil
                    THEN Put(old.changes, snap.Host, cs)
                    ELSE old.changes,
        !.errors = Put(old.errors, snap.Host, Nil)]

\* UpdateSnapshot: the bundle built from oldData
SnapshotData(old, snap, cs) ==
    [old EXCEPT
        !.snapshots = Put(old.snapshots, snap.Host, snap),
        !.changes = IF cs # Nil /\ ~IsEmpty(cs)
                    THEN Put(old.changes, snap.Host, cs)
                    ELSE old.changes,
        !.errors = Put(old.errors, snap.Host, Nil)]

\* UpdateError comparing the error values themselves instead of their texts
ErrorUnchanged_ByIdentity(old, h, err) ==
    LET exists == h \in DOMAIN old.errors
        currentErr == IF exists THEN old.errors[h] ELSE Nil
    IN  \/ exists /\ currentErr # Nil /\ err # Nil /\ currentErr = err
        \/ ~exists /\ err = Nil
        \/ exists /\ currentErr = Nil /\ err = Nil

\* UpdateError: the early returns ("no change needed")
ErrorUnchanged(old, h, err) ==
    LET exists == h \in DOMAIN old.errors
        currentErr == IF exists THEN old.errors[h] ELSE Nil
    IN  \/ exists /\ currentErr # Nil /\ err # Nil
            /\ ErrText(currentErr) = ErrText(err)
        \/ ~exists /\ err = Nil
        \/ exists /\ currentErr = Nil /\ err = Nil

\* UpdateError: the bundle built from oldData
ErrorData(old, h, err) == [old EXCEPT !.errors = Put(old.errors, h, err)]

\* ------------------------------------------------------------------ reads
GetSnapshot(data, h) ==
    IF h \in DOMAIN data.snapshots THEN data.snapshots[h] ELSE Nil
GetAllSnapshots(data) == data.snapshots
GetChangeSet(data, h) ==
    IF h \in DOMAIN data.changes THEN data.changes[h] ELSE Nil
GetErrors(data) ==
    [h \in {k \in DOMAIN data.errors : data.errors[k] # Nil} |-> data.errors[h]]
GetAllHosts(data) == data.hosts
\* GetFetchingHosts looking at the snapshots only
GetFetchingHosts_NoSnapshot(data) ==
    {h \in data.hosts : h \notin DOMAIN data.snapshots}

\* GetFetchingHosts taking any entry in errors, a nil one too, as an error
GetFetchingHosts_AnyEntry(data) ==
    {h \in data.hosts :
        h \notin DOMAIN data.snapshots /\ h \notin DOMAIN data.errors}

GetFetchingHosts(data) ==
    {h \in data.hosts :
        LET hasSnapshot == h \in DOMAIN data.snapshots
            hasError == h \in DOMAIN data.errors
        IN  ~hasSnapshot /\ (~hasError \/ data.errors[h] = Nil)}
StatsHosts(data) == Cardinality(DOMAIN data.snapshots)

\* ------------------------------------------------------------ subscribers
\* a send that makes room in a full channel by dropping its oldest update
TrySend_DropOldest(q, u) ==
    IF Len(q) < ChanCap THEN Append(q, u) ELSE Append(Tail(q), u)

\* select { case ch <- update: default: } on a channel holding q
TrySend(q, u) == IF Len(q) < ChanCap THEN Append(q, u) ELSE q

\* notifySubscribers over the list subs, one non-blocking send each
RECURSIVE NotifyAll(_, _, _)
NotifyAll(subs, cs, u) ==
    IF subs = <<>> THEN cs
    ELSE NotifyAll(Tail(subs),
                   [cs EXCEPT ![Head(subs)] = TrySend(cs[Head(subs)], u)], u)

\* Unsubscribe: the first match is overwritten by the last element and the
\* list is truncated
RemoveSwap(subs, ch) ==
    IF ch \notin Range(subs) THEN subs
    ELSE LET i == CHOOSE k \in 1..Len(subs) :
                    subs[k] = ch /\ \A j \in 1..(k - 1) : subs[j] # ch
             n == Len(subs)
         IN  SubSeq([subs EXCEPT ![i] = subs[n]], 1, n - 1)

\* ---------------------------------------------------------------- Init
NoCall == [op |-> "none"]

InitStore ==
    /\ current = New
    /\ subscribers = <<>>
    /\ chans = [c \in Chans |-> <<>>]
    /\ nops = 0
    /\ call = NoCall
    /\ regd = {}
    /\ snapd = {}
    /\ lastChange = [h \in Hosts |-> Nil]
    /\ got = [c \in Chans |-> Nil]
    /\ wpc = [t \in Writers |-> "idle"]
    /\ wop = [t \in Writers |-> NoCall]
    /\ wold = [t \in Writers |-> Nil]
    /\ wsubs = [t \in Writers |-> <<>>]
    /\ wowed = [t \in Writers |-> {}]
    /\ rlock = 0
    /\ rpc = "idle"
    /\ rdata = Nil
    /\ rview = Nil
    /\ rseen = {}
    /\ lastSnapshots = EmptyMap
    /\ hpc = "idle"
    /\ hsnap = Nil
    /\ currentErrors = Nil

\* the sources the orchestrator is started with
Sources == {"s1", "s2"}

\* processSnapshots before its goroutines run: nothing sent, nothing taken
InitFanIn ==
    /\ emitted = [src \in Sources |-> 0]
    /\ schan = [src \in Sources |-> <<>>]
    /\ fwd = [src \in Sources |-> Nil]

\* Start has not returned
NotReturned == [returned |-> FALSE]
\* Start returned err
Returned(err) == [returned |-> TRUE, err |-> err]

\* Start at its final select: the sources' goroutines started, errCh empty
InitStart ==
    /\ ctxDone = FALSE
    /\ spc = [src \in Sources |-> "running"]
    /\ sret = [src \in Sources |-> Nil]
    /\ errCh = <<>>
    /\ errClosed = FALSE
    /\ errLog = <<>>
    /\ startRet = NotReturned

\* orchestrator.New and http.New, Start having launched refreshController
\* and the sources' Collect; tk: the interval is not 0
InitRefresh(tk) ==
    /\ paused = FALSE
    /\ ticking = tk
    /\ cpc = "start"
    /\ ctodo = <<>>
    /\ orefresh = 0
    /\ hrefresh = [src \in Sources |-> 0]
    /\ hcpc = [src \in Sources |-> "start"]
    /\ owed = [src \in Sources |-> "none"]
    /\ began = [src \in Sources |-> FALSE]
    /\ hist = {}

\* h.targets
HTargets == <<"a", "b">>
TargetSet == {HTargets[i] : i \in 1..Len(HTargets)}
\* the workers collectAll starts (h.workers of them)
Workers == {"k1", "k2"}
\* a worker that is not running
NoWorker == [pc |-> "none", target |-> Nil]

\* http.New, and Collect called with an empty output channel
InitHTTP ==
    /\ hstate = "start"
    /\ trig = 0
    /\ qnext = 1
    /\ workCh = <<>>
    /\ workClosed = FALSE
    /\ wk = [k \in Workers |-> NoWorker]
    /\ herrors = [t \in TargetSet |-> Nil]
    /\ snapCh = <<>>
    /\ snapClosed = 0
    /\ fetched = [t \in TargetSet |-> "none"]
    /\ sentNow = [t \in TargetSet |-> 0]
    /\ triggered = FALSE
    /\ lateSend = FALSE

\* no poll has been made and the monitor has not run
InitPolls ==
    /\ pollLog = <<>>
    /\ pending = Nil
    /\ mread = 0

\* Start has launched processSnapshots with its fan-in goroutine,
\* monitorErrors and refreshController
InitTasks ==
    /\ fpc = "range"
    /\ mergedClosed = FALSE
    /\ ppc = "select"
    /\ kpc = "running"
    /\ epc = "running"

\* ------ the file source's data
\* The absolute paths of the files a scan can meet.
Paths == {"/d/f1", "/d/f2"}
\* The sizes and mod-times a file goes through; 0: the file is not there.
MaxStamp == 2
\* the process's working directory is /d: what filepath.Abs makes of a match
Abs(name) == IF name = "f1" THEN "/d/f1" ELSE name
\* "file:" + filepath.Base(path)
FileHost(path) == IF path = "/d/f1" THEN "file:f1" ELSE "file:f2"
\* the pattern filepath.Glob rejects with ErrBadPattern
BadPattern == "["
\* filepath.Glob(pattern) on the disk d: the matches, sorted
Glob(pattern, d) ==
    CASE pattern = "/d/*" ->
           (IF d["/d/f1"] # 0 THEN <<"/d/f1">> ELSE <<>>)
           \o (IF d["/d/f2"] # 0 THEN <<"/d/f2">> ELSE <<>>)
      [] pattern = "f1" -> IF d["/d/f1"] # 0 THEN <<"f1">> ELSE <<>>
      [] OTHER -> <<>>
\* the pattern lists a file source is made with
PatternLists == {<<"/d/*">>, <<"/d/*", "f1">>, <<"f1", "/d/*">>,
                 <<"/nonexistent/file.txt">>, <<"/d/*", BadPattern>>}
\* fmt.Errorf("finding files: %w", fmt.Errorf("glob %q: %w", pattern, err))
GlobErr(pattern) == [err |-> "finding files", glob |-> pattern]

RECURSIVE AddMatches_NoSeen(_, _)
\* findFiles' inner loop appending every match
AddMatches_NoSeen(files, matches) ==
    IF matches = <<>> THEN files
    ELSE AddMatches_NoSeen(Append(files, Abs(Head(matches))), Tail(matches))

RECURSIVE AddMatches(_, _)
\* findFiles' inner loop: each match's absolute path is appended unless seen
AddMatches(files, matches) ==
    IF matches = <<>> THEN files
    ELSE LET abs == Abs(Head(matches))
         IN AddMatches(IF \E i \in 1..Len(files) : files[i] = abs
                       THEN files ELSE Append(files, abs),
                       Tail(matches))

RECURSIVE FindFrom(_, _, _)
\* findFiles' outer loop over the patterns still to expand
FindFrom(pats, d, files) ==
    IF pats = <<>> THEN [files |-> files, err |-> Nil]
    ELSE IF Head(pats) = BadPattern
         THEN [files |-> <<>>, err |-> GlobErr(Head(pats))]
         ELSE FindFrom(Tail(pats), d, AddMatches(files, Glob(Head(pats), d)))

\* findFiles()
FindFiles(pats, d) == FindFrom(pats, d, <<>>)

\* file.New(patterns, follow, interval), the disk being d, Collect not begun
InitFile(pats, fol, d) ==
    /\ patterns = pats
    /\ follow = fol
    /\ disk = d
    /\ fileStates = [p \in Paths |-> 0]
    /\ gpc = "start"
    /\ gfiles = <<>>
    /\ gidx = 1
    /\ gsnap = Nil
    /\ gout = <<>>
    /\ gclosed = 0
    /\ glate = FALSE
    /\ gret = NotReturned
    /\ gread = [p \in Paths |-> 0]
    /\ gemit = [p \in Paths |-> 0]
    /\ gres = [p \in Paths |-> "none"]
    /\ glast = [p \in Paths |-> "none"]

\* ------ the parser's data
\* The lines the scanner returns in one Parse.
MaxLines == 8
\* the lines of a dump: goroutine headers, a function-call line, an indented
\* file:line, the empty line, a created-by line
HdrRun == [kind |-> "header", state |-> "running", wait |-> ""]
HdrRunWait == [kind |-> "header", state |-> "running", wait |-> "5 minutes"]
HdrRecv == [kind |-> "header", state |-> "chan receive", wait |-> ""]
HdrCond == [kind |-> "header", state |-> "sync.Cond.Wait", wait |-> ""]
FuncLine == [kind |-> "func", name |-> "main.f", args |-> "(0x1)"]
LocLine == [kind |-> "loc", file |-> "/a.go", line |-> 10]
BlankLine == [kind |-> "blank"]
CreatedLine == [kind |-> "created", name |-> "main.g"]
Lines == {HdrRun, HdrRunWait, HdrRecv, HdrCond, FuncLine, LocLine, BlankLine,
          CreatedLine}
\* the text of a line
LineText(l) ==
    CASE l.kind = "header" ->
           "goroutine 1 [" \o l.state
           \o (IF l.wait = "" THEN "" ELSE ", " \o l.wait) \o "]:"
      [] l.kind = "func" -> l.name \o l.args
      [] l.kind = "loc" -> "\t" \o l.file \o ":" \o ToString(l.line)
      [] l.kind = "created" -> "created by " \o l.name
      [] OTHER -> ""
\* the state tokens made of the characters of [\w\s,] only
WordStates == {"running", "chan receive"}
\* goroutineHeaderRe.FindStringSubmatch(line) != nil
HeaderMatches(l) == l.kind = "header" /\ l.state \in WordStates
\* fileLineRe and createdAtRe (the same expression) match the line
FileLineMatches(l) == l.kind = "loc"
\* createdByRe matches the line
CreatedByMatches(l) == l.kind = "created"
\* strings.HasPrefix(line, "\t") || strings.HasPrefix(line, " ")
Indented(l) == l.kind = "loc"
\* parseState(stateStr)
ParseState(stateStr) ==
    CASE stateStr = "running" -> "running"
      [] stateStr = "runnable" -> "runnable"
      [] stateStr = "syscall" -> "syscall"
      [] stateStr \in {"chan receive", "chan send", "select"} -> "blocked"
      [] OTHER -> "waiting"
\* extractFunctionName(line): what precedes the arguments' parenthesis
ExtractFunctionName(l) ==
    CASE l.kind = "func" -> l.name
      [] l.kind = "created" -> l.name
      [] OTHER -> LineText(l)
\* model.StackFrame{Func, File, Line} from a function line and a file:line
Frame(fl, loc) ==
    [Func |-> ExtractFunctionName(fl), File |-> loc.file, Line |-> loc.line]

RECURSIVE TraceString(_)
\* StackTrace.String()
TraceString(trace) ==
    IF trace = <<>> THEN ""
    ELSE LET f == trace[Len(trace)]
             one == f.Func \o (IF f.File # ""
                               THEN " " \o f.File \o ":" \o ToString(f.Line)
                               ELSE "")
         IN  IF Len(trace) = 1 THEN one
             ELSE TraceString(SubSeq(trace, 1, Len(trace) - 1)) \o "\n" \o one
\* Group.GenerateID(): the hash of the state and the trace's string
GenerateID(state, trace) == <<state, TraceString(trace)>>

\* AddGoroutine on one that lets the latest created-by replace the group's
AddGoroutine_LastCreatedBy(gs, state, trace, waitDuration, createdBy) ==
    LET id == GenerateID(state, trace)
    IN  IF id \in DOMAIN gs
        THEN [gs EXCEPT ![id] =
                 [@ EXCEPT !.Count = @ + 1,
                           !.CreatedBy = createdBy,
                           !.WaitDurations =
                               IF waitDuration # ""
                               THEN Append(@, waitDuration) ELSE @]]
        ELSE [i \in DOMAIN gs \cup {id} |->
                 IF i = id
                 THEN [ID |-> id, State |-> state, Count |-> 1,
                       Trace |-> trace, CreatedBy |-> createdBy,
                       WaitDurations |-> IF waitDuration # ""
                                         THEN <<waitDuration>> ELSE <<>>]
                 ELSE gs[i]]

\* Snapshot.AddGoroutine(state, trace, waitDuration, createdBy) on Groups gs
AddGoroutine(gs, state, trace, waitDuration, createdBy) ==
    LET id == GenerateID(state, trace)
    IN  IF id \in DOMAIN gs
        THEN [gs EXCEPT ![id] =
                 [@ EXCEPT !.Count = @ + 1,
                           !.WaitDurations =
                               IF waitDuration # ""
                               THEN Append(@, waitDuration) ELSE @]]
        ELSE [i \in DOMAIN gs \cup {id} |->
                 IF i = id
                 THEN [ID |-> id, State |-> state, Count |-> 1,
                       Trace |-> trace, CreatedBy |-> createdBy,
                       WaitDurations |-> IF waitDuration # ""
                                         THEN <<waitDuration>> ELSE <<>>]
                 ELSE gs[i]]

RECURSIVE SumCounts(_, _)
\* Snapshot.TotalGoroutines() over the ids still to add up
SumCounts(gs, ids) ==
    IF ids = {} THEN 0
    ELSE LET i == CHOOSE x \in ids : TRUE
         IN  gs[i].Count + SumCounts(gs, ids \ {i})
\* Snapshot.TotalGoroutines()
TotalGoroutines(gs) == SumCounts(gs, DOMAIN gs)

\* parser.New() and Parse up to its loop: model.NewSnapshot(host)
InitParse ==
    /\ lpc = "scan"
    /\ inGoroutine = FALSE
    /\ currentState = ""
    /\ currentWait = ""
    /\ currentStack = <<>>
    /\ currentCreatedBy = Nil
    /\ sgroups = EmptyMap
    /\ held = Nil
    /\ nread = 0
    /\ lline = Nil
    /\ recs = 0

\* no cycle is being counted against
InitCycles ==
    /\ bphase = "none"
    /\ later = 0

\* the sources other than the file source
InitRemote == InitHTTP /\ InitPolls /\ InitTasks

InitSources ==
    /\ InitRemote
    /\ InitFile(<<"/d/*">>, FALSE, [p \in Paths |-> 1])
    /\ InitParse
    /\ InitCycles

Init ==
    /\ InitStore
    /\ InitFanIn
    /\ InitStart
    /\ InitRefresh(TRUE)
    /\ InitSources
    /\ dold = Nil
    /\ dnew = Nil
    /\ dres = Nil

\* ------------------------------------------- Spec: one call at a time
\* RegisterHosts(hosts)
RegisterHostsCall(hs) ==
    /\ nops' = nops + 1
    /\ current' = RegisterData(current, hs)
    /\ call' = [op |-> "RegisterHosts", hosts |-> hs]
    /\ regd' = regd \cup hs
    /\ UNCHANGED <<subscribers, chans, snapd, lastChange, got, wvars, rvars,
                   ovars, evars>>

\* UpdateSnapshot notifying only when the stored snapshot changes
UpdateSnapshotCall_Dedup(snap, cs) ==
    /\ nops' = nops + 1
    /\ current' = SnapshotData(current, snap, cs)
    /\ chans' = IF GetSnapshot(current, snap.Host) = snap
                THEN chans
                ELSE NotifyAll(subscribers, chans,
                               Update(snap.Host, snap, cs, Nil))
    /\ call' = [op |-> "UpdateSnapshot", snapshot |-> snap, changeSet |-> cs]
    /\ snapd' = snapd \cup {snap.Host}
    /\ lastChange' = IF cs # Nil /\ ~IsEmpty(cs)
                     THEN [lastChange EXCEPT ![snap.Host] = cs]
                     ELSE lastChange
    /\ UNCHANGED <<subscribers, regd, got, wvars, rvars, ovars, evars>>

\* UpdateSnapshot(snapshot, changeSet)
UpdateSnapshotCall(snap, cs) ==
    /\ nops' = nops + 1
    /\ current' = SnapshotData(current, snap, cs)
    /\ chans' = NotifyAll(subscribers, chans, Update(snap.Host, snap, cs, Nil))
    /\ call' = [op |-> "UpdateSnapshot", snapshot |-> snap, changeSet |-> cs]
    /\ snapd' = snapd \cup {snap.Host}
    /\ lastChange' = IF cs # Nil /\ ~IsEmpty(cs)
                     THEN [lastChange EXCEPT ![snap.Host] = cs]
                     ELSE lastChange
    /\ UNCHANGED <<subscribers, regd, got, wvars, rvars, ovars, evars>>

\* UpdateError(host, err)
UpdateErrorCall(h, err) ==
    /\ nops' = nops + 1
    /\ IF ErrorUnchanged(current, h, err)
       THEN UNCHANGED <<current, chans>>
       ELSE /\ current' = ErrorData(current, h, err)
            /\ chans' = NotifyAll(subscribers, chans, Update(h, Nil, Nil, err))
    /\ call' = [op |-> "UpdateError", host |-> h, err |-> err]
    /\ UNCHANGED <<subscribers, regd, snapd, lastChange, got, wvars, rvars,
                   ovars, evars>>

\* Subscribe and Unsubscribe changing the list without taking the lock
MuLock_NoWait == TRUE

\* s.mu.Lock() returns: nobody holds the read lock (Subscribe and
\* Unsubscribe release the lock within their step)
MuLock == rlock = 0

\* Subscribe(ch); a caller subscribes a channel it is not subscribed with
SubscribeCall(ch) ==
    /\ MuLock
    /\ ch \notin Range(subscribers)
    /\ subscribers' = Append(subscribers, ch)
    /\ UNCHANGED <<current, chans, nops, call, regd, snapd, lastChange, got,
                   wvars, rvars, ovars, evars>>

\* Unsubscribe(ch)
UnsubscribeCall(ch) ==
    /\ MuLock
    /\ subscribers' = RemoveSwap(subscribers, ch)
    /\ UNCHANGED <<current, chans, nops, call, regd, snapd, lastChange, got,
                   wvars, rvars, ovars, evars>>

\* a subscriber takes the next update from its channel
Receive(ch) ==
    /\ chans[ch] # <<>>
    /\ got' = [got EXCEPT ![ch] = Head(chans[ch])]
    /\ chans' = [chans EXCEPT ![ch] = Tail(chans[ch])]
    /\ UNCHANGED <<current, subscribers, nops, call, regd, snapd, lastChange,
                   wvars, rvars, ovars, evars>>

\* Spec: the write calls in any order, nobody subscribed
Next ==
    /\ nops < MaxOps
    /\ \/ \E r \in SUBSET Hosts : RegisterHostsCall(r)
       \/ \E snap \in SnapshotInputs(Hosts) :
            \E cs \in ChangeInputs(snap.Host) : UpdateSnapshotCall(snap, cs)
       \/ \E h \in Hosts : \E err \in Errs \cup {Nil} : UpdateErrorCall(h, err)

Spec == Init /\ [][Next]_vars

\* SpecSubs: the write calls in any order, with subscribers coming, going
\* and receiving
NextSubs ==
    \/ /\ nops < MaxSubOps
       /\ \/ \E r \in SUBSET SubHosts : RegisterHostsCall(r)
          \/ \E snap \in SubSnapshots :
                \E cs \in SubChanges(snap.Host) : UpdateSnapshotCall(snap, cs)
          \/ \E h \in SubHosts :
                \E err \in Errs \cup {Nil} : UpdateErrorCall(h, err)
    \/ \E ch \in Chans : SubscribeCall(ch)
    \/ \E ch \in Chans : UnsubscribeCall(ch)
    \/ \E ch \in Chans : Receive(ch)

SpecSubs == Init /\ [][NextSubs]_vars

\* ------------------------------- SpecConc: concurrent calls on the store
\* The calls the writer goroutines make.
RegisterHostsOp(hs) == [op |-> "RegisterHosts", hosts |-> hs]
UpdateSnapshotOp(snap, cs) ==
    [op |-> "UpdateSnapshot", snapshot |-> snap, changeSet |-> cs]
UpdateErrorOp(h, err) == [op |-> "UpdateError", host |-> h, err |-> err]

ConcCalls ==
    {RegisterHostsOp({"a", "b"})}
    \cup {UpdateSnapshotOp(snap, Nil) : snap \in SubSnapshots}
    \cup {UpdateErrorOp("a", err) : err \in {Nil, [obj |-> 1, text |-> "timeout"]}}

\* newData as the call c builds it from oldData
NewData(c, old) ==
    CASE c.op = "RegisterHosts" -> RegisterData(old, c.hosts)
      [] c.op = "UpdateSnapshot" -> SnapshotData(old, c.snapshot, c.changeSet)
      [] c.op = "UpdateError" -> ErrorData(old, c.host, c.err)

\* the Update the call c passes to notifySubscribers
UpdateOf(c) ==
    IF c.op = "UpdateSnapshot"
    THEN Update(c.snapshot.Host, c.snapshot, c.changeSet, Nil)
    ELSE Update(c.host, Nil, Nil, c.err)

\* the read in progress also sees bundle b in place
Seen(b) == IF rpc \in {"a", "b"} THEN rseen \cup {b} ELSE rseen

\* oldData := s.current.Load(), and UpdateError's early returns
Begin(t, c) ==
    /\ wpc[t] = "idle"
    /\ nops' = nops + 1
    /\ wowed' = [wowed EXCEPT ![t] = {}]
    /\ IF c.op = "UpdateError" /\ ErrorUnchanged(current, c.host, c.err)
       THEN UNCHANGED <<wpc, wop, wold>>
       ELSE /\ wpc' = [wpc EXCEPT ![t] = "loaded"]
            /\ wop' = [wop EXCEPT ![t] = c]
            /\ wold' = [wold EXCEPT ![t] = current]
    /\ UNCHANGED <<current, subscribers, chans, call, regd, snapd, lastChange,
                   got, wsubs, rlock, rvars, evars>>

\* a goroutine other than the orchestrator's tasks begins the call c
StoreCall(t, c) == Begin(t, c) /\ UNCHANGED ovars

\* s.current.Store(newData); RegisterHosts returns here
WStore(t) ==
    /\ wpc[t] = "loaded"
    /\ current' = NewData(wop[t], wold[t])
    /\ rseen' = Seen(current')
    /\ wold' = [wold EXCEPT ![t] = Nil]
    /\ IF wop[t].op = "RegisterHosts"
       THEN /\ wpc' = [wpc EXCEPT ![t] = "idle"]
            /\ wop' = [wop EXCEPT ![t] = NoCall]
            /\ regd' = regd \cup wop[t].hosts
            /\ UNCHANGED wowed
       ELSE /\ wpc' = [wpc EXCEPT ![t] = "stored"]
            /\ wowed' = [wowed EXCEPT ![t] =
                    {ch \in Range(subscribers) : Len(chans[ch]) < ChanCap}]
            /\ UNCHANGED <<wop, regd>>
    /\ UNCHANGED <<subscribers, chans, nops, call, snapd, lastChange, got,
                   wsubs, rlock, rpc, rdata, rview, ovars, evars>>

\* notifySubscribers: s.mu.RLock(), and the range over s.subscribers begins
WRLock(t) ==
    /\ wpc[t] = "stored"
    /\ rlock' = rlock + 1
    /\ wsubs' = [wsubs EXCEPT ![t] = subscribers]
    /\ wpc' = [wpc EXCEPT ![t] = "notify"]
    /\ UNCHANGED <<svars, wop, wold, wowed, rvars, ovars, evars>>

\* notifySubscribers: the non-blocking send to the next subscriber
WSend(t) ==
    /\ wpc[t] = "notify"
    /\ wsubs[t] # <<>>
    /\ LET ch == Head(wsubs[t])
       IN  /\ chans' = [chans EXCEPT ![ch] = TrySend(chans[ch], UpdateOf(wop[t]))]
           /\ wowed' = IF chans'[ch] # chans[ch]
                       THEN [wowed EXCEPT ![t] = wowed[t] \ {ch}]
                       ELSE wowed
    /\ wsubs' = [wsubs EXCEPT ![t] = Tail(wsubs[t])]
    /\ UNCHANGED <<current, subscribers, nops, call, regd, snapd, lastChange,
                   got, wpc, wop, wold, rlock, rvars, ovars, evars>>

\* notifySubscribers: the range is over, s.mu.RUnlock(), and the call returns
WRUnlock(t) ==
    /\ wpc[t] = "notify"
    /\ wsubs[t] = <<>>
    /\ rlock' = rlock - 1
    /\ wpc' = [wpc EXCEPT ![t] = "idle"]
    /\ wop' = [wop EXCEPT ![t] = NoCall]
    /\ snapd' = IF wop[t].op = "UpdateSnapshot"
                THEN snapd \cup {wop[t].snapshot.Host}
                ELSE snapd
    /\ UNCHANGED <<current, subscribers, chans, nops, call, regd, lastChange,
                   got, wold, wsubs, wowed, rvars, ovars, evars>>

\* a read that loads s.current again at every access
ReaderData_Reload == current

\* the bundle a read takes the maps from: data, loaded once
ReaderData == rdata

\* a read: data := s.current.Load()
RLoad ==
    /\ rpc \in {"idle", "done"}
    /\ rpc' = "a"
    /\ rdata' = current
    /\ rview' = Nil
    /\ rseen' = {current}
    /\ UNCHANGED <<svars, wvars, ovars, evars>>

\* a read: the accesses to data.hosts and data.snapshots
RReadA ==
    /\ rpc = "a"
    /\ rpc' = "b"
    /\ rview' = [hosts |-> ReaderData.hosts, snapshots |-> ReaderData.snapshots]
    /\ UNCHANGED <<svars, wvars, rdata, rseen, ovars, evars>>

\* a read: the accesses to data.changes and data.errors, and the return
RReadB ==
    /\ rpc = "b"
    /\ rpc' = "done"
    /\ rview' = [hosts |-> rview.hosts, snapshots |-> rview.snapshots,
                 changes |-> ReaderData.changes, errors |-> ReaderData.errors]
    /\ UNCHANGED <<svars, wvars, rdata, rseen, ovars, evars>>

NextConc ==
    \/ /\ nops < MaxConcOps
       /\ \E t \in Writers : \E c \in ConcCalls : StoreCall(t, c)
    \/ \E t \in Writers : WStore(t)
    \/ \E t \in Writers : WRLock(t)
    \/ \E t \in Writers : WSend(t)
    \/ \E t \in Writers : WRUnlock(t)
    \/ \E ch \in Chans : SubscribeCall(ch)
    \/ \E ch \in Chans : UnsubscribeCall(ch)
    \/ \E ch \in Chans : Receive(ch)

SpecConc == Init /\ [][NextConc]_vars

\* SpecRead: a read running beside the concurrent calls, nobody subscribed
NextRead ==
    \/ /\ nops < MaxConcOps
       /\ \E t \in Writers : \E c \in ConcCalls : StoreCall(t, c)
    \/ \E t \in Writers : WStore(t)
    \/ \E t \in Writers : WRLock(t)
    \/ \E t \in Writers : WRUnlock(t)
    \/ RLoad
    \/ RReadA
    \/ RReadB

SpecRead == Init /\ [][NextRead]_vars

\* ------------------- SpecOrch: the orchestrator's tasks writing to the store
\* the host the source collects from, and the one subscriber (the UI)
OrchHosts == {"a"}
OrchChans == {"ch1"}
\* the goroutines: processSnapshots and monitorErrors
Processor == "w1"
Monitor == "w2"
\* what the source emits: Groups as group id -> Count
OrchSnapshots ==
    {[Host |-> h, TakenAt |-> t, Groups |-> g] :
        h \in OrchHosts, t \in 1..MaxOrchTime, g \in {EmptyMap, [g1 |-> 1]}}
\* what httpSource.GetErrors() holds for a host: no entry, or an error
OrchErrs == {Nil, [obj |-> 1, text |-> "timeout"]}

\* model.Group: the entry of snap.Groups under id (ID and Count)
Group(snap, id) == [ID |-> id, Count |-> snap.Groups[id]]

\* Compare recording the new count of a changed group instead of the delta
Compare_NewCount(old, new) ==
    IF old = Nil
    THEN ChangeSet(new.Host, {Group(new, id) : id \in DOMAIN new.Groups},
                   {}, EmptyMap)
    ELSE ChangeSet(new.Host,
                   {Group(new, id) :
                        id \in DOMAIN new.Groups \ DOMAIN old.Groups},
                   {Group(old, id) :
                        id \in DOMAIN old.Groups \ DOMAIN new.Groups},
                   [id \in {i \in DOMAIN new.Groups \cap DOMAIN old.Groups :
                                new.Groups[i] # old.Groups[i]}
                        |-> new.Groups[id]])

\* Compare recording a delta for every group present in both snapshots
Compare_EveryCommonGroup(old, new) ==
    IF old = Nil
    THEN ChangeSet(new.Host, {Group(new, id) : id \in DOMAIN new.Groups},
                   {}, EmptyMap)
    ELSE ChangeSet(new.Host,
                   {Group(new, id) :
                        id \in DOMAIN new.Groups \ DOMAIN old.Groups},
                   {Group(old, id) :
                        id \in DOMAIN old.Groups \ DOMAIN new.Groups},
                   [id \in DOMAIN new.Groups \cap DOMAIN old.Groups
                        |-> new.Groups[id] - old.Groups[id]])

\* diff.Compare(old, new)
Compare(old, new) ==
    IF old = Nil
    THEN ChangeSet(new.Host, {Group(new, id) : id \in DOMAIN new.Groups},
                   {}, EmptyMap)
    ELSE ChangeSet(new.Host,
                   {Group(new, id) :
                        id \in DOMAIN new.Groups \ DOMAIN old.Groups},
                   {Group(old, id) :
                        id \in DOMAIN old.Groups \ DOMAIN new.Groups},
                   [id \in {i \in DOMAIN new.Groups \cap DOMAIN old.Groups :
                                new.Groups[i] # old.Groups[i]}
                        |-> new.Groups[id] - old.Groups[id]])

\* o.lastSnapshots[host], nil when absent
LastSnapshot(h) ==
    IF h \in DOMAIN lastSnapshots THEN lastSnapshots[h] ELSE Nil

\* the source emits a host's snapshots in non-decreasing TakenAt order
InOrder(snap) ==
    LastSnapshot(snap.Host) # Nil
        => snap.TakenAt >= LastSnapshot(snap.Host).TakenAt

\* handleSnapshot: lastSnapshot is read, the diff computed, and
\* UpdateSnapshot begins
HandleSnapshot(snap) ==
    /\ hpc = "idle"
    /\ InOrder(snap)
    /\ Begin(Processor,
             UpdateSnapshotOp(snap, Compare(LastSnapshot(snap.Host), snap)))
    /\ hpc' = "update"
    /\ hsnap' = snap
    /\ UNCHANGED <<lastSnapshots, currentErrors>>

\* handleSnapshot: UpdateSnapshot has returned,
\* o.lastSnapshots[snapshot.Host] = snapshot
HandleSnapshotDone ==
    /\ hpc = "update"
    /\ wpc[Processor] = "idle"
    /\ lastSnapshots' = Put(lastSnapshots, hsnap.Host, hsnap)
    /\ hpc' = "idle"
    /\ hsnap' = Nil
    /\ UNCHANGED <<svars, wvars, rvars, evars, currentErrors>>

\* monitorErrors: o.store.UpdateError(host, err) / UpdateError(host, nil)
MonitorErrors(h, err) ==
    /\ Begin(Monitor, UpdateErrorOp(h, err))
    /\ UNCHANGED ovars

\* main: s.RegisterHosts(cfg.Targets), before the orchestrator is started
\* (the orchestrator's tests start it on a store without registered hosts)
RegisterTargets ==
    /\ nops = 0
    /\ RegisterHostsCall(OrchHosts)

NextOrch ==
    \/ RegisterTargets
    \/ /\ nops < MaxOrchOps
       /\ \E snap \in OrchSnapshots : HandleSnapshot(snap)
    \/ HandleSnapshotDone
    \/ /\ nops < MaxOrchOps
       /\ \E h \in OrchHosts : \E err \in OrchErrs : MonitorErrors(h, err)
    \/ \E t \in Writers : WStore(t)
    \/ \E t \in Writers : WRLock(t)
    \/ \E t \in Writers : WSend(t)
    \/ \E t \in Writers : WRUnlock(t)
    \/ \E ch \in OrchChans : SubscribeCall(ch)
    \/ \E ch \in OrchChans : Receive(ch)

SpecOrch == Init /\ [][NextOrch]_vars

\* ------------- SpecFanIn: processSnapshots, from the sources to the store
\* the host each source collects from
SourceHost(src) == IF src = "s1" THEN "a" ELSE "b"
\* the n-th snapshot the source sends: TakenAt counts the source's snapshots
Emission(src, n) ==
    [Host |-> SourceHost(src), TakenAt |-> n, Groups |-> EmptyMap]

\* a source's Collect: snapshots <- snapshot (waits while the channel is full)
Emit(src) ==
    /\ emitted[src] < MaxEmit
    /\ Len(schan[src]) < SrcChanCap
    /\ emitted' = [emitted EXCEPT ![src] = emitted[src] + 1]
    /\ schan' = [schan EXCEPT
                    ![src] = Append(schan[src], Emission(src, emitted[src] + 1))]
    /\ UNCHANGED <<svars, wvars, rvars, ovars, dvars, fwd, tvars, cvars,
                   xvars, zvars, bvars>>

\* a fan-in goroutine passing on whatever entered its channel last
Forward_Newest(src) ==
    /\ fwd[src] = Nil
    /\ schan[src] # <<>>
    /\ fwd' = [fwd EXCEPT ![src] = schan[src][Len(schan[src])]]
    /\ schan' = [schan EXCEPT
                    ![src] = SubSeq(schan[src], 1, Len(schan[src]) - 1)]
    /\ UNCHANGED <<svars, wvars, rvars, ovars, dvars, emitted, tvars,
                   cvars, xvars, zvars, bvars>>

\* a fan-in goroutine that stops receiving once Start has returned
Forward_WhileStartRuns(src) ==
    /\ ~startRet.returned
    /\ fwd[src] = Nil
    /\ schan[src] # <<>>
    /\ fwd' = [fwd EXCEPT ![src] = Head(schan[src])]
    /\ schan' = [schan EXCEPT ![src] = Tail(schan[src])]
    /\ UNCHANGED <<svars, wvars, rvars, ovars, dvars, emitted, tvars,
                   cvars, xvars, zvars, bvars>>

\* the fan-in goroutine of a source: for snapshot := range c
Forward(src) ==
    /\ fwd[src] = Nil
    /\ schan[src] # <<>>
    /\ fwd' = [fwd EXCEPT ![src] = Head(schan[src])]
    /\ schan' = [schan EXCEPT ![src] = Tail(schan[src])]
    /\ UNCHANGED <<svars, wvars, rvars, ovars, dvars, emitted, tvars,
                   cvars, xvars, zvars, bvars>>

\* merged <- snapshot in the fan-in goroutine meets snapshot := <-merged in
\* the processing loop (merged is unbuffered)
Merge(src) ==
    /\ fwd[src] # Nil
    /\ hpc = "idle"
    /\ hpc' = "handle"
    /\ hsnap' = fwd[src]
    /\ fwd' = [fwd EXCEPT ![src] = Nil]
    /\ UNCHANGED <<svars, wvars, rvars, lastSnapshots, currentErrors, dvars,
                   emitted, schan, tvars, cvars, xvars, zvars,
                   bvars>>

\* handleSnapshot(snapshot) for the snapshot received: lastSnapshot is read,
\* the diff computed, and UpdateSnapshot begins
HandleReceived ==
    /\ hpc = "handle"
    /\ Begin(Processor,
             UpdateSnapshotOp(hsnap, Compare(LastSnapshot(hsnap.Host), hsnap)))
    /\ hpc' = "update"
    /\ UNCHANGED <<hsnap, lastSnapshots, currentErrors>>

NextFanIn ==
    \/ \E src \in Sources : Emit(src)
    \/ \E src \in Sources : Forward(src)
    \/ \E src \in Sources : Merge(src)
    \/ HandleReceived
    \/ WStore(Processor)
    \/ WRLock(Processor)
    \/ WRUnlock(Processor)
    \/ HandleSnapshotDone

SpecFanIn == Init /\ [][NextFanIn]_vars

\* --------------------- SpecStart: Orchestrator.Start and what it returns
\* ctx.Err() of the cancelled context
CtxErr == [err |-> "context canceled"]
\* an error of the source's own (finding files failed)
SourceErr(src) == [err |-> "finding files", of |-> src]
\* fmt.Errorf("%s: %w", src.Name(), err)
Wrapped(src, err) == [source |-> src, wraps |-> err]
\* the rest of Start's tuple when the sources change state
startvars == <<ctxDone, errCh, errClosed, errLog, startRet>>
others == <<svars, wvars, rvars, ovars, dvars, fvars, cvars, xvars, zvars,
            bvars>>

\* the caller cancels the context
Cancel ==
    /\ ~ctxDone
    /\ ctxDone' = TRUE
    /\ UNCHANGED <<others, spc, sret, errCh, errClosed, errLog, startRet>>

\* Collect returns nil (a one-shot source is through): the goroutine sends
\* nothing and is done
CollectNil(src) ==
    /\ spc[src] = "running"
    /\ spc' = [spc EXCEPT ![src] = "done"]
    /\ sret' = [sret EXCEPT ![src] = Nil]
    /\ UNCHANGED <<others, startvars>>

\* Collect returns an error of its own
CollectFail(src) ==
    /\ spc[src] = "running"
    /\ spc' = [spc EXCEPT ![src] = "returned"]
    /\ sret' = [sret EXCEPT ![src] = SourceErr(src)]
    /\ UNCHANGED <<others, startvars>>

\* Collect sees the cancelled context and returns ctx.Err()
CollectCancelled(src) ==
    /\ spc[src] = "running"
    /\ ctxDone
    /\ spc' = [spc EXCEPT ![src] = "returned"]
    /\ sret' = [sret EXCEPT ![src] = CtxErr]
    /\ UNCHANGED <<others, startvars>>

\* the source's goroutine, Collect having returned err: the select's case
\* errCh <- fmt.Errorf(...) (errCh has room for every source)
SendErr(src) ==
    /\ spc[src] = "returned"
    /\ spc' = [spc EXCEPT ![src] = "done"]
    /\ errCh' = Append(errCh, Wrapped(src, sret[src]))
    /\ errLog' = Append(errLog, Wrapped(src, sret[src]))
    /\ UNCHANGED <<others, sret, ctxDone, errClosed, startRet>>

\* the source's goroutine, Collect having returned err: the select's case
\* <-ctx.Done()
DropErr(src) ==
    /\ spc[src] = "returned"
    /\ ctxDone
    /\ spc' = [spc EXCEPT ![src] = "done"]
    /\ UNCHANGED <<others, sret, startvars>>

\* wg.Wait() returns, close(errCh)
CloseErrCh ==
    /\ \A src \in Sources : spc[src] = "done"
    /\ ~errClosed
    /\ errClosed' = TRUE
    /\ UNCHANGED <<others, spc, sret, ctxDone, errCh, errLog, startRet>>

\* Start returning the error sent last
StartReturn_LastError ==
    /\ startRet = NotReturned
    /\ \/ /\ errCh # <<>>
          /\ startRet' = Returned(errCh[Len(errCh)])
          /\ errCh' = SubSeq(errCh, 1, Len(errCh) - 1)
       \/ /\ errCh = <<>> /\ errClosed
          /\ startRet' = Returned(Nil)
          /\ UNCHANGED errCh
       \/ /\ ctxDone
          /\ startRet' = Returned(CtxErr)
          /\ UNCHANGED errCh
    /\ UNCHANGED <<others, spc, sret, ctxDone, errClosed, errLog>>

\* Start's select: case err := <-errCh (an error sent, or nil from the closed
\* channel) or case <-ctx.Done(); any case that is ready may be taken
StartReturn ==
    /\ startRet = NotReturned
    /\ \/ /\ errCh # <<>>
          /\ startRet' = Returned(Head(errCh))
          /\ errCh' = Tail(errCh)
       \/ /\ errCh = <<>> /\ errClosed
          /\ startRet' = Returned(Nil)
          /\ UNCHANGED errCh
       \/ /\ ctxDone
          /\ startRet' = Returned(CtxErr)
          /\ UNCHANGED errCh
    /\ UNCHANGED <<others, spc, sret, ctxDone, errClosed, errLog>>

NextStart ==
    \/ Cancel
    \/ \E src \in Sources : CollectNil(src)
    \/ \E src \in Sources : CollectFail(src)
    \/ \E src \in Sources : CollectCancelled(src)
    \/ \E src \in Sources : SendErr(src)
    \/ \E src \in Sources : DropErr(src)
    \/ CloseErrCh
    \/ StartReturn

SpecStart == Init /\ [][NextStart]_vars

\* ------- SpecRefresh: refreshController, pause, and the sources' triggers
\* o.sources in order; both are HTTP sources
SourceOrder == <<"s1", "s2">>
\* what refreshController and the sources' Collect loops leave alone
\* what a step leaves alone but for the bookkeeping of cycles
nocycle == <<svars, wvars, rvars, ovars, dvars, fvars, tvars, xvars, zvars>>
norefresh == <<nocycle, bvars>>
\* refreshController is inside triggerAllSources
Triggering == {"initTrigger", "tickTrigger", "manualTrigger"}

\* make(chan struct{}, 1): the capacity of o.refreshCh and of h.refreshCh
RefreshCap == 1

\* a send that always adds its signal, as on a channel without a bound
SendRefresh_Unbounded(n) == n + 1

\* select { case ch <- struct{}{}: default: } on a channel holding n
\* signals: the signal is added if there is room and dropped otherwise
SendRefresh(n) == IF n < RefreshCap THEN n + 1 ELSE n

\* IsPaused always answering false
IsPaused_Never == FALSE

\* Orchestrator.IsPaused()
IsPaused == paused

\* Orchestrator.SetPaused(p)
SetPaused(p) ==
    /\ paused # p
    /\ paused' = p
    /\ UNCHANGED <<norefresh, ticking, cpc, ctodo, orefresh, hrefresh, hcpc,
                   owed, began, hist>>

\* Orchestrator.TriggerRefresh(): the non-blocking send on o.refreshCh
TriggerRefresh ==
    /\ orefresh' = SendRefresh(orefresh)
    /\ owed' = [src \in Sources |-> "owed"]
    /\ hist' = hist \cup {"manual"}
                  \cup (IF \E src \in Sources : hcpc[src] = "start"
                        THEN {"early"} ELSE {})
                  \cup (IF orefresh = RefreshCap THEN {"dropped"} ELSE {})
    /\ UNCHANGED <<nocycle, paused, ticking, cpc, ctodo, hrefresh, hcpc,
                   began>>

\* a TriggerRefresh() call at any time
ManualTrigger == TriggerRefresh /\ UNCHANGED bvars

\* refreshController starting without its initial trigger
ControllerStart_NoInitial ==
    /\ cpc = "start"
    /\ cpc' = "wait"
    /\ UNCHANGED <<norefresh, paused, ticking, ctodo, orefresh, hrefresh, hcpc,
                   owed, began, hist>>

\* refreshController: if !o.IsPaused() { o.triggerAllSources() }
ControllerStart ==
    /\ cpc = "start"
    /\ IF ~IsPaused
       THEN cpc' = "initTrigger" /\ ctodo' = SourceOrder
       ELSE cpc' = "wait" /\ UNCHANGED ctodo
    /\ UNCHANGED <<norefresh, paused, ticking, orefresh, hrefresh, hcpc, owed,
                   began, hist>>

\* triggerAllSources: httpSource.TriggerRefresh() for the next source (the
\* non-blocking send on h.refreshCh); after the last one the controller is
\* back in its select
TriggerSource ==
    /\ cpc \in Triggering
    /\ ctodo # <<>>
    /\ hrefresh' = [hrefresh EXCEPT ![Head(ctodo)] = SendRefresh(@)]
    /\ ctodo' = Tail(ctodo)
    /\ cpc' = IF Tail(ctodo) = <<>> THEN "wait" ELSE cpc
    /\ hist' = hist \cup (IF hrefresh[Head(ctodo)] = RefreshCap
                           THEN {"hdropped"} ELSE {})
    /\ UNCHANGED <<norefresh, paused, ticking, orefresh, hcpc, owed, began>>

\* refreshController taking ticks whatever the interval is
ControllerTick_AnyInterval ==
    /\ cpc = "wait"
    /\ IF ~IsPaused
       THEN /\ cpc' = "tickTrigger"
            /\ ctodo' = SourceOrder
            /\ hist' = hist \cup {"tick"}
       ELSE /\ hist' = hist \cup {"tick", "ignored"}
            /\ UNCHANGED <<cpc, ctodo>>
    /\ UNCHANGED <<norefresh, paused, ticking, orefresh, hrefresh, hcpc, owed,
                   began>>

\* refreshController triggering on every tick, paused or not
ControllerTick_WhilePaused ==
    /\ cpc = "wait"
    /\ ticking
    /\ cpc' = "tickTrigger"
    /\ ctodo' = SourceOrder
    /\ hist' = hist \cup {"tick"}
    /\ UNCHANGED <<norefresh, paused, ticking, orefresh, hrefresh, hcpc, owed,
                   began>>

\* refreshController: case <-ticker.C (only with an interval)
ControllerTick ==
    /\ cpc = "wait"
    /\ ticking
    /\ IF ~IsPaused
       THEN /\ cpc' = "tickTrigger"
            /\ ctodo' = SourceOrder
            /\ hist' = hist \cup {"tick"}
       ELSE /\ hist' = hist \cup {"tick", "ignored"}
            /\ UNCHANGED <<cpc, ctodo>>
    /\ UNCHANGED <<norefresh, paused, ticking, orefresh, hrefresh, hcpc, owed,
                   began>>

\* refreshController handling a manual refresh only while not paused
ControllerManual_UnlessPaused ==
    /\ cpc = "wait"
    /\ orefresh > 0
    /\ orefresh' = orefresh - 1
    /\ IF ~IsPaused
       THEN cpc' = "manualTrigger" /\ ctodo' = SourceOrder
       ELSE UNCHANGED <<cpc, ctodo>>
    /\ UNCHANGED <<norefresh, paused, ticking, hrefresh, hcpc, owed, began,
                   hist>>

\* refreshController: case <-o.refreshCh, paused or not
ControllerManual ==
    /\ cpc = "wait"
    /\ orefresh > 0
    /\ orefresh' = orefresh - 1
    /\ cpc' = "manualTrigger"
    /\ ctodo' = SourceOrder
    /\ UNCHANGED <<norefresh, paused, ticking, hrefresh, hcpc, owed, began,
                   hist>>

\* HTTPSource.Collect reaches its select
SourceStart(src) ==
    /\ hcpc[src] = "start"
    /\ hcpc' = [hcpc EXCEPT ![src] = "wait"]
    /\ UNCHANGED <<norefresh, paused, ticking, cpc, ctodo, orefresh, hrefresh,
                   owed, began, hist>>

\* HTTPSource.Collect: case <-h.refreshCh, collectAll begins
CollectBegin(src) ==
    /\ hcpc[src] = "wait"
    /\ hrefresh[src] > 0
    /\ hrefresh' = [hrefresh EXCEPT ![src] = @ - 1]
    /\ hcpc' = [hcpc EXCEPT ![src] = "collecting"]
    /\ began' = [began EXCEPT ![src] = TRUE]
    /\ owed' = [owed EXCEPT
                    ![src] = IF owed[src] = "owed" THEN "served" ELSE owed[src]]
    /\ UNCHANGED <<nocycle, paused, ticking, cpc, ctodo, orefresh, hist>>

\* a source begins a cycle
SourceBegin(src) == CollectBegin(src) /\ UNCHANGED bvars

\* HTTPSource.Collect: collectAll returns
CollectEnd(src) ==
    /\ hcpc[src] = "collecting"
    /\ hcpc' = [hcpc EXCEPT ![src] = "wait"]
    /\ UNCHANGED <<nocycle, paused, ticking, cpc, ctodo, orefresh, hrefresh,
                   owed, began, hist>>

\* a source ends a cycle
SourceEnd(src) == CollectEnd(src) /\ UNCHANGED bvars

NextRefresh ==
    \/ \E p \in BOOLEAN : SetPaused(p)
    \/ ManualTrigger
    \/ ControllerStart
    \/ TriggerSource
    \/ ControllerTick
    \/ ControllerManual
    \/ \E src \in Sources : SourceStart(src)
    \/ \E src \in Sources : SourceBegin(src)
    \/ \E src \in Sources : SourceEnd(src)

InitRefreshAny ==
    /\ InitStore
    /\ InitFanIn
    /\ InitStart
    /\ \E tk \in BOOLEAN : InitRefresh(tk)
    /\ InitSources
    /\ dold = Nil
    /\ dnew = Nil
    /\ dres = Nil

\* The goroutines keep running: the controller and each Collect loop take
\* a step that stays possible. Nothing is assumed of ticks, TriggerRefresh
\* calls and SetPaused calls, which come from the timer and the user.
FairRefresh ==
    /\ WF_vars(ControllerStart)
    /\ WF_vars(TriggerSource)
    /\ WF_vars(ControllerManual)
    /\ \A src \in Sources :
        /\ WF_vars(SourceStart(src))
        /\ WF_vars(SourceBegin(src))
        /\ WF_vars(SourceEnd(src))

SpecRefresh == InitRefreshAny /\ [][NextRefresh]_vars /\ FairRefresh

\* ---------------- SpecHTTP: HTTPSource.Collect, collectAll and its workers
\* what the HTTP source's goroutines leave alone
nohttp == <<svars, wvars, rvars, ovars, dvars, fvars, cvars, pvars, zvars,
            gvars, lvars, bvars>>
nostart == <<spc, sret, errCh, errClosed, errLog, startRet>>

\* what a request can come to: no connection, a status, a body that cannot
\* be read, a dump the parser rejects, a dump it accepts
Responses == {"refused", "status 404", "status 500", "unreadable",
              "unparsable", "dump"}

\* HTTPSource.collectOne(ctx, target) on a response: the snapshot's host and
\* the error
CollectOne(target, resp) ==
    CASE resp = "refused" -> [Host |-> Nil, err |-> [text |-> "fetching"]]
      [] resp \in {"status 404", "status 500"} ->
             [Host |-> Nil, err |-> [text |-> "unexpected " \o resp]]
      [] resp = "unreadable" ->
             [Host |-> Nil, err |-> [text |-> "reading response"]]
      [] resp = "unparsable" ->
             [Host |-> Nil, err |-> [text |-> "parsing dump"]]
      [] OTHER -> [Host |-> target, err |-> Nil]

\* HTTPSource.TriggerRefresh() called on this source
HTrigger ==
    /\ trig' = SendRefresh(trig)
    /\ triggered' = TRUE
    /\ UNCHANGED <<nohttp, tvars, hstate, qnext, workCh, workClosed, wk,
                   herrors, snapCh, snapClosed, fetched, sentNow, lateSend>>

\* the cancellation scope fires
HCancel ==
    /\ ~ctxDone
    /\ ctxDone' = TRUE
    /\ UNCHANGED <<nohttp, nostart, hvars>>

\* Collect running collectAll once before it waits for a trigger
HStart_CollectFirst ==
    /\ hstate = "start"
    /\ hstate' = "queue"
    /\ qnext' = 1
    /\ workCh' = <<>>
    /\ workClosed' = FALSE
    /\ wk' = [k \in Workers |-> [pc |-> "range", target |-> Nil]]
    /\ UNCHANGED <<nohttp, tvars, trig, herrors, snapCh, snapClosed, fetched,
                   sentNow, triggered, lateSend>>

\* Collect reaches its select
HStart ==
    /\ hstate = "start"
    /\ hstate' = "wait"
    /\ UNCHANGED <<nohttp, tvars, trig, qnext, workCh, workClosed, wk, herrors,
                   snapCh, snapClosed, fetched, sentNow, triggered, lateSend>>

\* Collect: case <-h.refreshCh; collectAll makes workCh and starts the
\* workers
HBegin ==
    /\ hstate = "wait"
    /\ trig > 0
    /\ trig' = trig - 1
    /\ hstate' = "queue"
    /\ qnext' = 1
    /\ workCh' = <<>>
    /\ workClosed' = FALSE
    /\ wk' = [k \in Workers |-> [pc |-> "range", target |-> Nil]]
    /\ fetched' = [t \in TargetSet |-> "none"]
    /\ sentNow' = [t \in TargetSet |-> 0]
    /\ UNCHANGED <<nohttp, tvars, herrors, snapCh, snapClosed, triggered,
                   lateSend>>

\* Collect: case <-ctx.Done(): return ctx.Err(), and the deferred
\* close(snapshots)
HReturn ==
    /\ hstate = "wait"
    /\ ctxDone
    /\ hstate' = "returned"
    /\ snapClosed' = snapClosed + 1
    /\ UNCHANGED <<nohttp, tvars, trig, qnext, workCh, workClosed, wk, herrors,
                   snapCh, fetched, sentNow, triggered, lateSend>>

\* collectAll: case workCh <- target (workCh has room for every target)
HQueue ==
    /\ hstate = "queue"
    /\ qnext <= Len(HTargets)
    /\ workCh' = Append(workCh, HTargets[qnext])
    /\ qnext' = qnext + 1
    /\ UNCHANGED <<nohttp, tvars, hstate, trig, workClosed, wk, herrors, snapCh,
                   snapClosed, fetched, sentNow, triggered, lateSend>>

\* collectAll: close(workCh), after the last target or on case <-ctx.Done()
\* while queuing; wg.Wait() follows
HCloseWork ==
    /\ hstate = "queue"
    /\ qnext > Len(HTargets) \/ ctxDone
    /\ workClosed' = TRUE
    /\ hstate' = "join"
    /\ UNCHANGED <<nohttp, tvars, trig, qnext, workCh, wk, herrors, snapCh,
                   snapClosed, fetched, sentNow, triggered, lateSend>>

\* collectAll returning without waiting for its workers
HJoin_NoWait ==
    /\ hstate = "join"
    /\ hstate' = "wait"
    /\ UNCHANGED <<nohttp, tvars, trig, qnext, workCh, workClosed, wk, herrors,
                   snapCh, snapClosed, fetched, sentNow, triggered, lateSend>>

\* collectAll: wg.Wait() returns when every worker has, and Collect is back
\* in its select
HJoin ==
    /\ hstate = "join"
    /\ \A k \in Workers : wk[k].pc = "exit"
    /\ hstate' = "wait"
    /\ wk' = [k \in Workers |-> NoWorker]
    /\ UNCHANGED <<nohttp, tvars, trig, qnext, workCh, workClosed, herrors,
                   snapCh, snapClosed, fetched, sentNow, triggered, lateSend>>

\* a worker that reads the target and leaves it in workCh
WorkerTake_NoRemove(k) ==
    /\ wk[k].pc = "range"
    /\ workCh # <<>>
    /\ wk' = [wk EXCEPT ![k] = [pc |-> "fetch", target |-> Head(workCh)]]
    /\ UNCHANGED <<nohttp, tvars, hstate, trig, qnext, workCh, workClosed,
                   herrors, snapCh, snapClosed, fetched, sentNow, triggered,
                   lateSend>>

\* worker: for target := range workCh, a target received
WorkerTake(k) ==
    /\ wk[k].pc = "range"
    /\ workCh # <<>>
    /\ wk' = [wk EXCEPT ![k] = [pc |-> "fetch", target |-> Head(workCh)]]
    /\ workCh' = Tail(workCh)
    /\ UNCHANGED <<nohttp, tvars, hstate, trig, qnext, workClosed, herrors,
                   snapCh, snapClosed, fetched, sentNow, triggered, lateSend>>

\* worker: range workCh ends, workCh being closed and empty
WorkerExit(k) ==
    /\ wk[k].pc = "range"
    /\ workCh = <<>>
    /\ workClosed
    /\ wk' = [wk EXCEPT ![k] = [pc |-> "exit", target |-> Nil]]
    /\ UNCHANGED <<nohttp, tvars, hstate, trig, qnext, workCh, workClosed,
                   herrors, snapCh, snapClosed, fetched, sentNow, triggered,
                   lateSend>>

\* a worker that records errors and never deletes one
WorkerFetch_KeepError(k, resp) ==
    /\ wk[k].pc = "fetch"
    /\ LET t == wk[k].target
           r == CollectOne(t, resp)
       IN /\ herrors' = IF r.err = Nil THEN herrors
                                       ELSE [herrors EXCEPT ![t] = r.err]
          /\ fetched' = [fetched EXCEPT
                             ![t] = IF r.err = Nil THEN "ok" ELSE "fail"]
          /\ wk' = [wk EXCEPT ![k] = IF r.err = Nil
                                        THEN [pc |-> "send", target |-> r.Host]
                                        ELSE [pc |-> "range", target |-> Nil]]
    /\ UNCHANGED <<nohttp, tvars, hstate, trig, qnext, workCh, workClosed,
                   snapCh, snapClosed, sentNow, triggered, lateSend>>

\* worker: collectOne returns and h.errors is updated under errorsMu
WorkerFetch(k, resp) ==
    /\ wk[k].pc = "fetch"
    /\ LET t == wk[k].target
           r == CollectOne(t, resp)
       IN /\ herrors' = [herrors EXCEPT ![t] = r.err]
          /\ fetched' = [fetched EXCEPT
                             ![t] = IF r.err = Nil THEN "ok" ELSE "fail"]
          /\ wk' = [wk EXCEPT ![k] = IF r.err = Nil
                                        THEN [pc |-> "send", target |-> r.Host]
                                        ELSE [pc |-> "range", target |-> Nil]]
    /\ UNCHANGED <<nohttp, tvars, hstate, trig, qnext, workCh, workClosed,
                   snapCh, snapClosed, sentNow, triggered, lateSend>>

\* worker: case snapshots <- snapshot
WorkerSend(k) ==
    /\ wk[k].pc = "send"
    /\ Len(snapCh) < SnapCap
    /\ snapCh' = Append(snapCh, [Host |-> wk[k].target])
    /\ sentNow' = [sentNow EXCEPT ![wk[k].target] = @ + 1]
    /\ lateSend' = (lateSend \/ snapClosed > 0)
    /\ wk' = [wk EXCEPT ![k] = [pc |-> "range", target |-> Nil]]
    /\ UNCHANGED <<nohttp, tvars, hstate, trig, qnext, workCh, workClosed,
                   herrors, snapClosed, fetched, triggered>>

\* worker: case <-ctx.Done(): return
WorkerSendCancelled(k) ==
    /\ wk[k].pc = "send"
    /\ ctxDone
    /\ wk' = [wk EXCEPT ![k] = [pc |-> "exit", target |-> Nil]]
    /\ UNCHANGED <<nohttp, tvars, hstate, trig, qnext, workCh, workClosed,
                   herrors, snapCh, snapClosed, fetched, sentNow, triggered,
                   lateSend>>

\* the reader of the output channel receives a snapshot
HReceive ==
    /\ snapCh # <<>>
    /\ snapCh' = Tail(snapCh)
    /\ UNCHANGED <<nohttp, tvars, hstate, trig, qnext, workCh, workClosed, wk,
                   herrors, snapClosed, fetched, sentNow, triggered, lateSend>>

NextHTTP ==
    \/ HTrigger
    \/ HCancel
    \/ HStart
    \/ HBegin
    \/ HReturn
    \/ HQueue
    \/ HCloseWork
    \/ HJoin
    \/ \E k \in Workers : WorkerTake(k)
    \/ \E k \in Workers : WorkerExit(k)
    \/ \E k \in Workers, resp \in Responses : WorkerFetch(k, resp)
    \/ \E k \in Workers : WorkerSend(k)
    \/ \E k \in Workers : WorkerSendCancelled(k)
    \/ HReceive

SpecHTTP == Init /\ [][NextHTTP]_vars

\* ---- SpecRecover: one target's polls, the error monitor and the processor
\* the target polled, and what its dump holds
RecTarget == "a"
RecGroups == [g1 |-> 1]
\* the responses the target gives
RecResponses == {"status 500", "dump"}
\* what SpecRecover's steps leave alone of the HTTP source
norecover == <<hstate, trig, qnext, workCh, workClosed, wk, snapClosed,
               fetched, sentNow, triggered, lateSend>>

\* worker: collectOne returns and h.errors is updated (one poll of the target)
PollFetch(resp) ==
    /\ Len(pollLog) < MaxPolls
    /\ pending = Nil
    /\ LET r == CollectOne(RecTarget, resp)
       IN /\ herrors' = [herrors EXCEPT ![RecTarget] = r.err]
          /\ pollLog' = Append(pollLog, IF r.err = Nil THEN "ok" ELSE "fail")
          /\ pending' = IF r.err = Nil
                         THEN [Host |-> r.Host, TakenAt |-> Len(pollLog) + 1,
                               Groups |-> RecGroups]
                         ELSE Nil
    /\ UNCHANGED <<svars, wvars, rvars, ovars, dvars, fvars, tvars, cvars,
                   zvars, gvars, lvars, bvars, norecover, snapCh, mread>>

\* worker: case snapshots <- snapshot
PollSend ==
    /\ pending # Nil
    /\ Len(snapCh) < SnapCap
    /\ snapCh' = Append(snapCh, pending)
    /\ pending' = Nil
    /\ UNCHANGED <<svars, wvars, rvars, ovars, dvars, fvars, tvars, cvars,
                   zvars, gvars, lvars, bvars, norecover, herrors, pollLog,
                   mread>>

\* processSnapshots: the snapshot goes from the source's channel through
\* merged to the processing loop
RecReceive ==
    /\ snapCh # <<>>
    /\ hpc = "idle"
    /\ hpc' = "handle"
    /\ hsnap' = Head(snapCh)
    /\ snapCh' = Tail(snapCh)
    /\ UNCHANGED <<svars, wvars, rvars, lastSnapshots, currentErrors, dvars,
                   fvars, tvars, cvars, zvars, gvars, lvars, bvars,
                   norecover, herrors, pvars>>

\* monitorErrors: case <-ticker.C, currentErrors := httpSource.GetErrors()
MonitorTick ==
    /\ currentErrors = Nil
    /\ wpc[Monitor] = "idle"
    /\ nops < MaxOrchOps
    /\ currentErrors' =
           [t \in {u \in TargetSet : herrors[u] # Nil} |-> herrors[t]]
    /\ mread' = Len(pollLog)
    /\ UNCHANGED <<svars, wvars, rvars, lastSnapshots, hpc, hsnap, dvars,
                   fvars, tvars, cvars, zvars, gvars, lvars, bvars, hvars,
                   pollLog, pending>>

\* monitorErrors: o.store.UpdateError(host, err) or UpdateError(host, nil)
\* for the target, from the copy
MonitorUpdate ==
    /\ currentErrors # Nil
    /\ Begin(Monitor,
             UpdateErrorOp(RecTarget,
                           IF RecTarget \in DOMAIN currentErrors
                           THEN currentErrors[RecTarget] ELSE Nil))
    /\ currentErrors' = Nil
    /\ UNCHANGED <<lastSnapshots, hpc, hsnap>>

NextRecover ==
    \/ \E resp \in RecResponses : PollFetch(resp)
    \/ PollSend
    \/ RecReceive
    \/ HandleReceived
    \/ HandleSnapshotDone
    \/ MonitorTick
    \/ MonitorUpdate
    \/ \E t \in Writers : WStore(t)
    \/ \E t \in Writers : WRLock(t)
    \/ \E t \in Writers : WRUnlock(t)

SpecRecover == Init /\ [][NextRecover]_vars

\* ------ SpecStop: the tasks Start launches, up to and after cancellation
\* the responses a target gives in SpecStop
StopResponses == {"status 500", "dump"}
\* what the fan-in, the processor, the controller and the monitor leave alone
nostop == <<svars, wvars, rvars, ovars, dvars, fvars, tvars, cvars, pvars,
            gvars, lvars, bvars>>
nosnap == <<hstate, trig, qnext, workCh, workClosed, wk, herrors, snapClosed,
            fetched, sentNow, triggered, lateSend>>

\* refreshController: triggerAllSources, for a tick or a manual refresh
StopTrigger ==
    /\ kpc = "running"
    /\ HTrigger

\* refreshController: case <-ctx.Done(): return
CtrlReturn ==
    /\ kpc = "running"
    /\ ctxDone
    /\ kpc' = "returned"
    /\ UNCHANGED <<nostop, hvars, fpc, mergedClosed, ppc, epc>>

\* monitorErrors: case <-ctx.Done(): return
MonReturn ==
    /\ epc = "running"
    /\ ctxDone
    /\ epc' = "returned"
    /\ UNCHANGED <<nostop, hvars, fpc, mergedClosed, ppc, kpc>>

\* fan-in goroutine: for snapshot := range c, a snapshot received
FwdReceive ==
    /\ fpc = "range"
    /\ snapCh # <<>>
    /\ snapCh' = Tail(snapCh)
    /\ fpc' = "send"
    /\ UNCHANGED <<nostop, nosnap, mergedClosed, ppc, kpc, epc>>

\* fan-in goroutine: range c ends, c being closed and empty
FwdEnd ==
    /\ fpc = "range"
    /\ snapCh = <<>>
    /\ snapClosed > 0
    /\ fpc' = "returned"
    /\ UNCHANGED <<nostop, hvars, mergedClosed, ppc, kpc, epc>>

\* fan-in goroutine: case merged <- snapshot, received by the processing loop
\* (case snapshot, ok := <-merged)
FwdSend ==
    /\ fpc = "send"
    /\ ppc = "select"
    /\ fpc' = "range"
    /\ ppc' = "handle"
    /\ UNCHANGED <<nostop, hvars, mergedClosed, kpc, epc>>

\* fan-in goroutine without the case <-ctx.Done()
FwdCancelled_Never ==
    /\ fpc = "send"
    /\ FALSE
    /\ UNCHANGED vars

\* fan-in goroutine: case <-ctx.Done(): return
FwdCancelled ==
    /\ fpc = "send"
    /\ ctxDone
    /\ fpc' = "returned"
    /\ UNCHANGED <<nostop, hvars, mergedClosed, ppc, kpc, epc>>

\* processSnapshots: wg.Wait() returns and close(merged)
CloseMerged ==
    /\ fpc = "returned"
    /\ ~mergedClosed
    /\ mergedClosed' = TRUE
    /\ UNCHANGED <<nostop, hvars, fpc, ppc, kpc, epc>>

\* processSnapshots: o.handleSnapshot(snapshot) returns
ProcHandled ==
    /\ ppc = "handle"
    /\ ppc' = "select"
    /\ UNCHANGED <<nostop, hvars, fpc, mergedClosed, kpc, epc>>

\* processSnapshots: merged is closed (!ok): return
ProcClosed ==
    /\ ppc = "select"
    /\ mergedClosed
    /\ ppc' = "returned"
    /\ UNCHANGED <<nostop, hvars, fpc, mergedClosed, kpc, epc>>

\* processSnapshots: case <-ctx.Done(): return
ProcCancelled ==
    /\ ppc = "select"
    /\ ctxDone
    /\ ppc' = "returned"
    /\ UNCHANGED <<nostop, hvars, fpc, mergedClosed, kpc, epc>>

NextStop ==
    \/ HCancel
    \/ StopTrigger
    \/ CtrlReturn
    \/ MonReturn
    \/ HStart
    \/ HBegin
    \/ HReturn
    \/ HQueue
    \/ HCloseWork
    \/ HJoin
    \/ \E k \in Workers : WorkerTake(k)
    \/ \E k \in Workers : WorkerExit(k)
    \/ \E k \in Workers, resp \in StopResponses : WorkerFetch(k, resp)
    \/ \E k \in Workers : WorkerSend(k)
    \/ \E k \in Workers : WorkerSendCancelled(k)
    \/ FwdReceive
    \/ FwdEnd
    \/ FwdSend
    \/ FwdCancelled
    \/ CloseMerged
    \/ ProcHandled
    \/ ProcClosed
    \/ ProcCancelled

\* Every goroutine keeps running: a step of a task that stays possible is
\* taken. Nothing is assumed of the cancellation nor of the triggers.
FairStop ==
    /\ WF_vars(CtrlReturn)
    /\ WF_vars(MonReturn)
    /\ WF_vars(HStart)
    /\ WF_vars(HBegin)
    /\ WF_vars(HReturn)
    /\ WF_vars(HQueue)
    /\ WF_vars(HCloseWork)
    /\ WF_vars(HJoin)
    /\ \A k \in Workers :
        /\ WF_vars(WorkerTake(k))
        /\ WF_vars(WorkerExit(k))
        /\ WF_vars(\E resp \in StopResponses : WorkerFetch(k, resp))
        /\ WF_vars(WorkerSend(k))
        /\ WF_vars(WorkerSendCancelled(k))
    /\ WF_vars(FwdReceive)
    /\ WF_vars(FwdEnd)
    /\ WF_vars(FwdSend)
    /\ WF_vars(FwdCancelled)
    /\ WF_vars(CloseMerged)
    /\ WF_vars(ProcHandled)
    /\ WF_vars(ProcClosed)
    /\ WF_vars(ProcCancelled)

SpecStop == Init /\ [][NextStop]_vars /\ FairStop

\* ------------------------------------- SpecDiff: diff.Compare on its own
GroupIDs == {"g1", "g2", "g3"}
\* the Groups maps of the snapshots compared: any subset of GroupIDs, each
\* group with a Count in 1..MaxCount
GroupMaps ==
    UNION {[ids -> 1..MaxCount] : ids \in SUBSET GroupIDs}
DiffSnapshots == {[Host |-> "a", TakenAt |-> 1, Groups |-> g] : g \in GroupMaps}

InitDiff ==
    /\ InitStore
    /\ InitFanIn
    /\ InitStart
    /\ InitRefresh(TRUE)
    /\ InitSources
    /\ dold \in DiffSnapshots \cup {Nil}
    /\ dnew \in DiffSnapshots
    /\ dres = Nil

\* changeSet := o.diff.Compare(lastSnapshot, snapshot)
DiffCompare ==
    /\ dres = Nil
    /\ dres' = Compare(dold, dnew)
    /\ UNCHANGED <<svars, wvars, rvars, ovars, dold, dnew, fvars, tvars,
                   cvars, xvars, zvars, bvars>>

NextDiff == DiffCompare

SpecDiff == InitDiff /\ [][NextDiff]_vars

\* ------ SpecFile: the file source's Collect, one-shot and follow
\* what the file source's steps leave alone
nofile == <<svars, wvars, rvars, ovars, dvars, fvars, tvars, cvars, hvars,
            pvars, zvars, lvars, bvars>>
\* what a step leaves alone of the scan's bookkeeping
noscan == <<gfiles, gidx, gsnap, gread, gemit, gres, glast>>

\* Collect returns err; its deferred close(snapshots) runs
FReturn(err) ==
    /\ gpc' = "returned"
    /\ gret' = Returned(err)
    /\ gclosed' = gclosed + 1

\* collectOnce and scanAndCollect up to their loop: files, err := findFiles()
ScanBegin ==
    LET r == FindFiles(patterns, disk)
    IN  IF r.err # Nil
        THEN FReturn(r.err) /\ UNCHANGED noscan
        ELSE /\ gfiles' = r.files
             /\ gidx' = 1
             /\ gpc' = "scan"
             /\ gread' = [p \in Paths |-> 0]
             /\ gemit' = [p \in Paths |-> 0]
             /\ gres' = [p \in Paths |-> "none"]
             /\ UNCHANGED <<gsnap, gret, gclosed, glast>>

\* Collect: collectOnce, or collectWithFollow's initial scan
FStart ==
    /\ gpc = "start"
    /\ ScanBegin
    /\ UNCHANGED <<nofile, follow, patterns, disk, fileStates, gout, glate>>

\* collectWithFollow: case <-ticker.C
FTick ==
    /\ gpc = "wait"
    /\ ScanBegin
    /\ UNCHANGED <<nofile, follow, patterns, disk, fileStates, gout, glate>>

\* collectWithFollow: case <-ctx.Done()
FWaitCancelled ==
    /\ gpc = "wait"
    /\ ctxDone
    /\ FReturn(CtxErr)
    /\ UNCHANGED <<nofile, follow, patterns, disk, fileStates, gout, glate,
                   noscan>>

\* the scan's loop: case <-ctx.Done() before a file
FLoopCancelled ==
    /\ gpc = "scan"
    /\ gidx <= Len(gfiles)
    /\ ctxDone
    /\ FReturn(CtxErr)
    /\ UNCHANGED <<nofile, follow, patterns, disk, fileStates, gout, glate,
                   noscan>>

\* readFile(p): ok says whether what is there can be opened and parsed
ReadFile(p, ok) ==
    /\ gread' = [gread EXCEPT ![p] = @ + 1]
    /\ glast' = [glast EXCEPT ![p] = IF ok /\ disk[p] # 0 THEN "ok"
                                     ELSE "failed"]
    /\ IF ok /\ disk[p] # 0
       THEN /\ gsnap' = [Host |-> FileHost(p), Path |-> p, Stamp |-> disk[p]]
            /\ gres' = [gres EXCEPT ![p] = "read"]
            /\ gpc' = "send"
            /\ gidx' = gidx
       ELSE /\ gsnap' = Nil
            /\ gres' = [gres EXCEPT ![p] = "failed"]
            /\ gpc' = "scan"
            /\ gidx' = gidx + 1

\* collectOnce's loop: default, f.readFile(file)
FReadOnce(ok) ==
    /\ gpc = "scan"
    /\ ~follow
    /\ gidx <= Len(gfiles)
    /\ ~ctxDone
    /\ ReadFile(gfiles[gidx], ok)
    /\ UNCHANGED <<nofile, follow, patterns, disk, fileStates, gout, glate,
                   gfiles, gemit, gclosed, gret>>

\* scanAndCollect's loop: default, checkAndReadFile up to its readFile call
FCheck ==
    /\ gpc = "scan"
    /\ follow
    /\ gidx <= Len(gfiles)
    /\ ~ctxDone
    /\ LET p == gfiles[gidx]
       IN  IF disk[p] = 0
           THEN /\ gres' = [gres EXCEPT ![p] = "gone"]
                /\ gidx' = gidx + 1
                /\ UNCHANGED <<fileStates, gpc>>
           ELSE IF fileStates[p] # 0 /\ fileStates[p] = disk[p]
           THEN /\ gres' = [gres EXCEPT ![p] = "same"]
                /\ gidx' = gidx + 1
                /\ UNCHANGED <<fileStates, gpc>>
           ELSE /\ fileStates' = [fileStates EXCEPT ![p] = disk[p]]
                /\ gres' = [gres EXCEPT ![p] = "changed"]
                /\ gpc' = "read"
                /\ UNCHANGED gidx
    /\ UNCHANGED <<nofile, follow, patterns, disk, gout, glate, gfiles, gsnap,
                   gread, gemit, gclosed, gret, glast>>

\* checkAndReadFile: return f.readFile(path)
FReadChanged(ok) ==
    /\ gpc = "read"
    /\ ReadFile(gfiles[gidx], ok)
    /\ UNCHANGED <<nofile, follow, patterns, disk, fileStates, gout, glate,
                   gfiles, gemit, gclosed, gret>>

\* the scan's loop: case snapshots <- snapshot
FSend ==
    /\ gpc = "send"
    /\ Len(gout) < SnapCap
    /\ gout' = Append(gout, gsnap)
    /\ glate' = (glate \/ gclosed > 0)
    /\ gemit' = [gemit EXCEPT ![gfiles[gidx]] = @ + 1]
    /\ gres' = [gres EXCEPT ![gfiles[gidx]] = "sent"]
    /\ gsnap' = Nil
    /\ gidx' = gidx + 1
    /\ gpc' = "scan"
    /\ UNCHANGED <<nofile, follow, patterns, disk, fileStates, gfiles, gread,
                   gclosed, gret, glast>>

\* the scan's loop: case <-ctx.Done() instead of the send
FSendCancelled ==
    /\ gpc = "send"
    /\ ctxDone
    /\ FReturn(CtxErr)
    /\ UNCHANGED <<nofile, follow, patterns, disk, fileStates, gout, glate,
                   noscan>>

\* the scan's loop is over: collectOnce returns nil, scanAndCollect returns
\* nil to collectWithFollow's loop
FScanEnd ==
    /\ gpc = "scan"
    /\ gidx > Len(gfiles)
    /\ IF follow
       THEN gpc' = "wait" /\ UNCHANGED <<gret, gclosed>>
       ELSE FReturn(Nil)
    /\ UNCHANGED <<nofile, follow, patterns, disk, fileStates, gout, glate,
                   noscan>>

\* the consumer of the file source's channel takes a snapshot
FReceive ==
    /\ gout # <<>>
    /\ gout' = Tail(gout)
    /\ UNCHANGED <<nofile, follow, patterns, disk, fileStates, gpc, glate,
                   gclosed, gret, noscan>>

\* somebody writes the file p: its size or mod-time changes
DiskWrite(p) ==
    /\ disk[p] < MaxStamp
    /\ disk' = [disk EXCEPT ![p] = @ + 1]
    /\ UNCHANGED <<nofile, follow, patterns, fileStates, gpc, gout, glate,
                   gclosed, gret, noscan>>

\* somebody removes the file p
DiskRemove(p) ==
    /\ disk[p] # 0
    /\ disk' = [disk EXCEPT ![p] = 0]
    /\ UNCHANGED <<nofile, follow, patterns, fileStates, gpc, gout, glate,
                   gclosed, gret, noscan>>

NextFile ==
    \/ FStart
    \/ FTick
    \/ FWaitCancelled
    \/ FLoopCancelled
    \/ \E ok \in BOOLEAN : FReadOnce(ok)
    \/ FCheck
    \/ \E ok \in BOOLEAN : FReadChanged(ok)
    \/ FSend
    \/ FSendCancelled
    \/ FScanEnd
    \/ FReceive
    \/ \E p \in Paths : DiskWrite(p)
    \/ \E p \in Paths : DiskRemove(p)
    \/ HCancel

InitFileAny ==
    /\ InitStore
    /\ InitFanIn
    /\ InitStart
    /\ InitRefresh(TRUE)
    /\ InitRemote
    /\ \E pats \in PatternLists, fol \in BOOLEAN, d \in [Paths -> 0..1] :
           InitFile(pats, fol, d)
    /\ InitParse
    /\ InitCycles
    /\ dold = Nil
    /\ dnew = Nil
    /\ dres = Nil

SpecFile == InitFileAny /\ [][NextFile]_vars

\* ------ SpecParse: Parse over every sequence of at most MaxLines lines
\* what Parse's steps leave alone
noparse == <<svars, wvars, rvars, ovars, dvars, fvars, tvars, cvars, hvars,
             pvars, zvars, gvars, bvars>>

\* scanner.Scan() returns the line l
Scanned(l) ==
    /\ nread < MaxLines
    /\ nread' = nread + 1
    /\ lline' = l
    /\ recs' = recs + (IF l.kind = "header" THEN 1 ELSE 0)

\* Groups after the goroutine being collected is saved, if it has a stack
Saved ==
    IF currentStack # <<>>
    THEN AddGoroutine(sgroups, currentState, currentStack, currentWait,
                      currentCreatedBy)
    ELSE sgroups

\* one turn of the loop on the line l, up to the scan of a line after it
ParseLine(l) ==
    /\ lpc = "scan"
    /\ Scanned(l)
    /\ IF HeaderMatches(l)
       THEN /\ sgroups' = IF inGoroutine THEN Saved ELSE sgroups
            /\ inGoroutine' = TRUE
            /\ currentState' = ParseState(l.state)
            /\ currentWait' = l.wait
            /\ currentStack' = <<>>
            /\ currentCreatedBy' = Nil
            /\ UNCHANGED <<lpc, held>>
       ELSE IF ~inGoroutine
       THEN UNCHANGED <<lpc, inGoroutine, currentState, currentWait,
                        currentStack, currentCreatedBy, sgroups, held>>
       ELSE IF LineText(l) = ""
       THEN /\ sgroups' = Saved
            /\ inGoroutine' = FALSE
            /\ UNCHANGED <<lpc, currentState, currentWait, currentStack,
                           currentCreatedBy, held>>
       ELSE IF CreatedByMatches(l)
       THEN /\ lpc' = "created"
            /\ held' = l
            /\ UNCHANGED <<inGoroutine, currentState, currentWait,
                           currentStack, currentCreatedBy, sgroups>>
       ELSE IF FileLineMatches(l)
       THEN UNCHANGED <<lpc, inGoroutine, currentState, currentWait,
                        currentStack, currentCreatedBy, sgroups, held>>
       ELSE IF ~Indented(l)
       THEN /\ lpc' = "frame"
            /\ held' = l
            /\ UNCHANGED <<inGoroutine, currentState, currentWait,
                           currentStack, currentCreatedBy, sgroups>>
       ELSE UNCHANGED <<lpc, inGoroutine, currentState, currentWait,
                        currentStack, currentCreatedBy, sgroups, held>>
    /\ UNCHANGED noparse

\* after a created-by line: if scanner.Scan() { fileLine := scanner.Text()
ParseCreatedAt(l) ==
    /\ lpc = "created"
    /\ Scanned(l)
    /\ currentCreatedBy' = IF FileLineMatches(l) THEN Frame(held, l)
                           ELSE currentCreatedBy
    /\ lpc' = "scan"
    /\ held' = Nil
    /\ UNCHANGED <<inGoroutine, currentState, currentWait, currentStack,
                   sgroups, noparse>>

\* after a function line: if scanner.Scan() { fileLine := scanner.Text()
ParseFrameAt(l) ==
    /\ lpc = "frame"
    /\ Scanned(l)
    /\ currentStack' = IF FileLineMatches(l)
                       THEN Append(currentStack, Frame(held, l))
                       ELSE currentStack
    /\ lpc' = "scan"
    /\ held' = Nil
    /\ UNCHANGED <<inGoroutine, currentState, currentWait, currentCreatedBy,
                   sgroups, noparse>>

\* scanner.Scan() returns false: the last goroutine is saved, Parse returns
ParseEnd ==
    /\ lpc # "done"
    /\ lpc' = "done"
    /\ sgroups' = IF inGoroutine THEN Saved ELSE sgroups
    /\ held' = Nil
    /\ UNCHANGED <<inGoroutine, currentState, currentWait, currentStack,
                   currentCreatedBy, nread, lline, recs, noparse>>

NextParse ==
    \/ \E l \in Lines : ParseLine(l)
    \/ \E l \in Lines : ParseCreatedAt(l)
    \/ \E l \in Lines : ParseFrameAt(l)
    \/ ParseEnd

SpecParse == Init /\ [][NextParse]_vars

\* ------ SpecBurst: manual refreshes during one cycle of one source
\* the source whose cycle the refreshes are counted against
BurstSource == "s1"

\* interval 0, the initial trigger delivered and consumed by both sources;
\* the first cycle of BurstSource is under way, that of the other source is
\* over, and nothing waits in any channel
InitBurst ==
    /\ InitStore
    /\ InitFanIn
    /\ InitStart
    /\ paused = FALSE
    /\ ticking = FALSE
    /\ cpc = "wait"
    /\ ctodo = <<>>
    /\ orefresh = 0
    /\ hrefresh = [src \in Sources |-> 0]
    /\ hcpc = [src \in Sources |->
                  IF src = BurstSource THEN "collecting" ELSE "wait"]
    /\ owed = [src \in Sources |-> "none"]
    /\ began = [src \in Sources |-> TRUE]
    /\ hist = {}
    /\ InitRemote
    /\ InitFile(<<"/d/*">>, FALSE, [p \in Paths |-> 1])
    /\ InitParse
    /\ bphase = "during"
    /\ later = 0
    /\ dold = Nil
    /\ dnew = Nil
    /\ dres = Nil

\* a TriggerRefresh() call while the cycle counted against is under way
BurstTrigger ==
    /\ bphase = "during"
    /\ TriggerRefresh
    /\ UNCHANGED bvars

\* a source begins a cycle; one of BurstSource after the cycle counted
\* against is counted
BurstBegin(src) ==
    /\ CollectBegin(src)
    /\ later' = IF src = BurstSource THEN later + 1 ELSE later
    /\ UNCHANGED bphase

\* a source ends a cycle; the first one of BurstSource is the one counted
\* against
BurstEnd(src) ==
    /\ CollectEnd(src)
    /\ bphase' = IF src = BurstSource THEN "over" ELSE bphase
    /\ UNCHANGED later

NextBurst ==
    \/ BurstTrigger
    \/ ControllerManual
    \/ TriggerSource
    \/ \E src \in Sources : BurstBegin(src)
    \/ \E src \in Sources : BurstEnd(src)

SpecBurst == InitBurst /\ [][NextBurst]_vars

\* ------- SpecDrain: sources that finish, Start returning nil, and the
\* snapshots still on their way to the store
\* a source's Collect sends a snapshot; it has not returned
SourceSend(src) ==
    /\ spc[src] = "running"
    /\ Emit(src)

\* processSnapshots: every source closed its channel (the deferred close of
\* its Collect), every fan-in goroutine's range over its channel ended,
\* wg.Wait() returns and close(merged)
DrainCloseMerged ==
    /\ \A src \in Sources :
        spc[src] = "done" /\ schan[src] = <<>> /\ fwd[src] = Nil
    /\ ~mergedClosed
    /\ mergedClosed' = TRUE
    /\ UNCHANGED <<nostop, hvars, fpc, ppc, kpc, epc>>

\* processSnapshots' loop, no snapshot in hand: merged is closed, return
DrainProcClosed ==
    /\ hpc = "idle"
    /\ ProcClosed

NextDrain ==
    \/ \E src \in Sources : SourceSend(src)
    \/ \E src \in Sources : CollectNil(src)
    \/ CloseErrCh
    \/ StartReturn
    \/ \E src \in Sources : Forward(src)
    \/ \E src \in Sources : Merge(src)
    \/ HandleReceived
    \/ WStore(Processor)
    \/ WRLock(Processor)
    \/ WRUnlock(Processor)
    \/ HandleSnapshotDone
    \/ DrainCloseMerged
    \/ DrainProcClosed

\* The fan-in goroutines and the processing loop keep running, whatever
\* Start did: a step of theirs that stays possible is taken. Nothing is
\* assumed of the sources nor of Start.
FairDrain ==
    /\ \A src \in Sources :
        /\ WF_vars(Forward(src))
        /\ WF_vars(Merge(src))
    /\ WF_vars(HandleReceived)
    /\ WF_vars(WStore(Processor))
    /\ WF_vars(WRLock(Processor))
    /\ WF_vars(WRUnlock(Processor))
    /\ WF_vars(HandleSnapshotDone)

SpecDrain == Init /\ [][NextDrain]_vars /\ FairDrain

\* ------ SpecPause: the refresh controller and pause beside a file source
\* in follow mode
\* Start with two HTTP sources and a file source following /d/*, an
\* interval set: the controller's initial trigger was delivered and both
\* HTTP sources have run the cycle it asked for, so the controller is in its
\* select and nothing waits in any channel; the file source's Collect is
\* about to begin and /d holds f1
InitPause ==
    /\ InitStore
    /\ InitFanIn
    /\ InitStart
    /\ paused = FALSE
    /\ ticking = TRUE
    /\ cpc = "wait"
    /\ ctodo = <<>>
    /\ orefresh = 0
    /\ hrefresh = [src \in Sources |-> 0]
    /\ hcpc = [src \in Sources |-> "wait"]
    /\ owed = [src \in Sources |-> "none"]
    /\ began = [src \in Sources |-> TRUE]
    /\ hist = {}
    /\ InitRemote
    /\ InitFile(<<"/d/*">>, TRUE,
                [p \in Paths |-> IF p = "/d/f1" THEN 1 ELSE 0])
    /\ InitParse
    /\ InitCycles
    /\ dold = Nil
    /\ dnew = Nil
    /\ dres = Nil

NextPause ==
    \/ \E p \in BOOLEAN : SetPaused(p)
    \/ ManualTrigger
    \/ TriggerSource
    \/ ControllerTick
    \/ ControllerManual
    \/ \E src \in Sources : SourceBegin(src)
    \/ \E src \in Sources : SourceEnd(src)
    \/ FStart
    \/ FTick
    \/ FCheck
    \/ FReadChanged(TRUE)
    \/ FSend
    \/ FScanEnd
    \/ FReceive
    \/ DiskWrite("/d/f1")

SpecPause == InitPause /\ [][NextPause]_vars

\* ================================================================ claims
\* a store write call is made in this step
CallStep == nops' # nops
\* errors[h], nil when absent
StoredErr(data, h) == IF h \in DOMAIN data.errors THEN data.errors[h] ELSE Nil
\* what each channel holds after one non-blocking send of u to every
\* subscribed channel
Delivered(u) ==
    [ch \in Chans |->
        IF ch \in Range(subscribers) /\ Len(chans[ch]) < ChanCap
        THEN Append(chans[ch], u) ELSE chans[ch]]

\* ---- C3
NoErrorIfSnapshot(data, h) ==
    h \in DOMAIN data.snapshots => StoredErr(data, h) = Nil

\* C3 as stated: in every reachable store state, every host that has a
\* snapshot has a nil or absent error.
C3_SnapshotHasNoError == \A h \in Hosts : NoErrorIfSnapshot(current, h)

\* C3 amended: UpdateSnapshot for h leaves h with a snapshot and a nil error,
\* and "h has a snapshot => errors[h] nil or absent" is preserved by every
\* call except UpdateError(h, err) with a non-nil err.
C3_SnapshotClearsError ==
    [][\A h \in Hosts :
        /\ (CallStep /\ call'.op = "UpdateSnapshot" /\ call'.snapshot.Host = h)
            => /\ h \in DOMAIN current'.snapshots
               /\ h \in DOMAIN current'.errors
               /\ current'.errors[h] = Nil
        /\ (/\ NoErrorIfSnapshot(current, h)
            /\ ~(/\ CallStep
                 /\ call'.op = "UpdateError"
                 /\ call'.host = h
                 /\ call'.err # Nil))
            => NoErrorIfSnapshot(current', h)]_vars

\* C3 witness: a snapshot was just committed for h and its error is nil,
\* while another host keeps its snapshot beside a recorded error.
C3_Witness ==
    \E h \in Hosts, g \in Hosts :
        /\ g # h
        /\ call.op = "UpdateSnapshot" /\ call.snapshot.Host = h
        /\ h \in DOMAIN current.errors /\ current.errors[h] = Nil
        /\ g \in DOMAIN current.snapshots
        /\ StoredErr(current, g) \in Errs

\* ---- C5
\* C5: after any sequence of UpdateSnapshot calls made one at a time,
\* GetChangeSet(h) is the latest non-nil, non-empty change passed for h (nil
\* if none), and the snapshot of the latest call is stored whatever its
\* change-set was.
C5_LatestNonEmptyChange ==
    /\ \A h \in Hosts : GetChangeSet(current, h) = lastChange[h]
    /\ call.op = "UpdateSnapshot"
        => GetSnapshot(current, call.snapshot.Host) = call.snapshot

\* C5 witness: the latest call for h passed a nil or empty change and the
\* earlier non-empty one is still returned.
C5_Witness ==
    \E h \in Hosts :
        /\ call.op = "UpdateSnapshot" /\ call.snapshot.Host = h
        /\ (call.changeSet = Nil \/ IsEmpty(call.changeSet))
        /\ lastChange[h] # Nil
        /\ GetChangeSet(current, h) = lastChange[h]
        /\ GetSnapshot(current, h) = call.snapshot

\* ---- C10
\* C10: GetFetchingHosts() is exactly the set of hosts passed to
\* RegisterHosts for which no snapshot was committed and which GetErrors()
\* does not list.
C10_FetchingHosts ==
    GetFetchingHosts(current) =
        {h \in regd : h \notin snapd /\ h \notin DOMAIN GetErrors(current)}

\* C10 witness: a, b, c registered, a snapshot for a, an error for b:
\* the fetching set is {c}.
C10_Witness ==
    /\ regd = {"a", "b", "c"}
    /\ snapd = {"a"}
    /\ DOMAIN GetErrors(current) = {"b"}
    /\ GetFetchingHosts(current) = {"c"}

\* ---- C9
\* the stored and the new error differ semantically
SemanticallyChanged(stored, err) ==
    IF stored # Nil /\ err # Nil
    THEN stored.text # err.text
    ELSE (stored = Nil) # (err = Nil)

\* C9: UpdateError(host, err) replaces the bundle and sends the update to
\* the subscribers iff the error semantically changed; then only
\* errors[host] differs; otherwise bundle and channels stay as they were.
C9_UpdateErrorOnlyOnChange ==
    [][(CallStep /\ call'.op = "UpdateError") =>
        LET h == call'.host
            err == call'.err
        IN  IF SemanticallyChanged(StoredErr(current, h), err)
            THEN /\ current' # current
                 /\ DOMAIN current'.errors = DOMAIN current.errors \cup {h}
                 /\ current'.errors[h] = err
                 /\ \A k \in DOMAIN current.errors \ {h} :
                        current'.errors[k] = current.errors[k]
                 /\ current'.hosts = current.hosts
                 /\ current'.snapshots = current.snapshots
                 /\ current'.changes = current.changes
                 /\ chans' = Delivered(Update(h, Nil, Nil, err))
            ELSE /\ current' = current
                 /\ chans' = chans]_vars

\* C9 witness: UpdateError was called with an error value other than the
\* stored one but with the same text, while a channel was subscribed; the
\* stored value is still the old one.
C9_Witness ==
    /\ call.op = "UpdateError"
    /\ call.err # Nil
    /\ StoredErr(current, call.host) # Nil
    /\ StoredErr(current, call.host) # call.err
    /\ StoredErr(current, call.host).text = call.err.text
    /\ subscribers # <<>>

\* ---- C6
EmptyChange(cs) == cs # Nil /\ IsEmpty(cs)

\* C6 as stated: when UpdateSnapshot(S, empty change) is applied a second
\* time in a row, a subscriber that got the first notification and has free
\* capacity gets no second one (one notification in all), and no change-set
\* entry is kept for S.Host.
C6_TwiceOneNotification ==
    [][(/\ CallStep
        /\ call.op = "UpdateSnapshot"
        /\ EmptyChange(call.changeSet)
        /\ call' = call) =>
        LET u == Update(call.snapshot.Host, call.snapshot, call.changeSet, Nil)
        IN  /\ \A ch \in Range(subscribers) :
                (/\ Len(chans[ch]) < ChanCap
                 /\ (got[ch] = u \/ u \in Range(chans[ch])))
                => chans'[ch] = chans[ch]
            /\ GetChangeSet(current', call.snapshot.Host) # call.changeSet]_vars

\* C6 amended: every application of UpdateSnapshot(S, empty change), the
\* second of two in a row too, sends one notification carrying S to each
\* subscribed channel with free capacity, stores S, and leaves changes as
\* it was (the empty change-set is not kept).
C6_OneNotificationPerCall ==
    [][(/\ CallStep
        /\ call'.op = "UpdateSnapshot"
        /\ EmptyChange(call'.changeSet)) =>
        LET S == call'.snapshot
        IN  /\ chans' = Delivered(Update(S.Host, S, call'.changeSet, Nil))
            /\ current'.changes = current.changes
            /\ GetSnapshot(current', S.Host) = S]_vars

\* C6 witness: after UpdateSnapshot(S, empty change) a subscriber holds two
\* notifications of it: one received, one waiting in its channel.
C6_Witness ==
    /\ call.op = "UpdateSnapshot"
    /\ EmptyChange(call.changeSet)
    /\ \E ch \in Range(subscribers) :
        LET u == Update(call.snapshot.Host, call.snapshot, call.changeSet, Nil)
        IN  got[ch] = u /\ chans[ch] = <<u>>
    /\ call.snapshot.Host \notin DOMAIN current.changes

\* ---- C1
AllReturned == \A t \in Writers : wpc[t] = "idle"

\* C1: once all concurrent calls have returned, the bundle in place holds
\* the effect of every one of them: every host whose UpdateSnapshot returned
\* has a snapshot (GetStats().Hosts and GetAllSnapshots() count exactly those
\* hosts) and every host passed to RegisterHosts is registered.
C1_NoLostWrite ==
    AllReturned =>
        /\ snapd \subseteq DOMAIN current.snapshots
        /\ StatsHosts(current) = Cardinality(snapd)
        /\ DOMAIN GetAllSnapshots(current) = snapd
        /\ regd \subseteq GetAllHosts(current)

\* ---- C2
\* C2: with the orchestrator's tasks running, once UpdateSnapshot for a
\* snapshot S has returned and a subscriber has received its update,
\* GetSnapshot(S.Host) is a snapshot with TakenAt >= S.TakenAt.
C2_SnapshotNeverOlder ==
    \A ch \in OrchChans :
        (/\ got[ch] # Nil
         /\ got[ch].Snapshot # Nil
         /\ wpc[Processor] = "idle")
        => /\ GetSnapshot(current, got[ch].Host) # Nil
           /\ GetSnapshot(current, got[ch].Host).TakenAt
                >= got[ch].Snapshot.TakenAt

\* ---- C11
\* C11: a registered host that has left the fetching set (a snapshot was
\* committed or a non-null error recorded for it) is never reported by
\* GetFetchingHosts again.
C11_NeverFetchingAgain ==
    [][\A h \in OrchHosts :
        (h \in GetAllHosts(current) /\ h \notin GetFetchingHosts(current))
            => h \notin GetFetchingHosts(current')]_vars

\* the write call c, once stored, gives host h a snapshot or a non-null error
Produces(c, h) ==
    \/ c.op = "UpdateSnapshot" /\ c.snapshot.Host = h
    \/ c.op = "UpdateError" /\ c.host = h /\ c.err # Nil

\* C11 amended: a registered host is out of the fetching set as soon as a
\* bundle with a snapshot or a non-null error for it is stored; it is
\* reported again only when UpdateError stores a bundle, built from one
\* without a snapshot of the host, in which the host's error is nil or
\* absent (UpdateError(h, nil) clearing the error of a host that has no
\* snapshot yet, or an UpdateError overwriting a concurrent commit).
C11_FetchingAgainOnlyByUpdateError ==
    [][\A h \in OrchHosts :
        /\ \A t \in Writers :
              (wpc[t] = "loaded" /\ wpc'[t] = "stored" /\ Produces(wop[t], h))
                => h \notin GetFetchingHosts(current')
        /\ (/\ h \in GetAllHosts(current)
            /\ h \notin GetFetchingHosts(current)
            /\ h \in GetFetchingHosts(current'))
            => \E t \in Writers :
                /\ wpc[t] = "loaded" /\ wpc'[t] = "stored"
                /\ wop[t].op = "UpdateError"
                /\ ~Produces(wop[t], h)
                /\ h \notin DOMAIN wold[t].snapshots]_vars

\* C11 witness: a registered host whose recorded error was cleared before any
\* snapshot of it was committed is reported as fetching again.
C11_Witness ==
    \E h \in OrchHosts :
        /\ h \in GetAllHosts(current)
        /\ h \in DOMAIN current.errors /\ current.errors[h] = Nil
        /\ h \notin DOMAIN current.snapshots
        /\ h \in GetFetchingHosts(current)
        /\ \A t \in Writers : wpc[t] = "idle"

\* ---- C12
\* C12: every host for which UpdateSnapshot has committed a snapshot is
\* returned by GetAllHosts, registered or not.
C12_SnapshotHostsListed == snapd \subseteq GetAllHosts(current)

\* ---- C13
\* the ids of the groups in a set of groups
IDs(groups) == {g.ID : g \in groups}
\* old's Groups, an absent old having none
OldGroups == IF dold = Nil THEN EmptyMap ELSE dold.Groups

\* C13: Compare(old, new) returns as Added exactly the groups of new whose
\* id is not in old, as Removed exactly the groups of old whose id is not
\* in new, and as Updated the delta new.Count - old.Count for exactly the ids
\* in both with different counts; so the three are pairwise disjoint in ids,
\* no delta is zero, and with old absent Updated and Removed are empty.
C13_CompareExact ==
    dres # Nil =>
        /\ dres.Host = dnew.Host
        /\ \A id \in GroupIDs :
            /\ id \in IDs(dres.Added)
                <=> (id \in DOMAIN dnew.Groups /\ id \notin DOMAIN OldGroups)
            /\ id \in IDs(dres.Removed)
                <=> (id \in DOMAIN OldGroups /\ id \notin DOMAIN dnew.Groups)
            /\ id \in DOMAIN dres.Updated
                <=> (/\ id \in DOMAIN OldGroups
                     /\ id \in DOMAIN dnew.Groups
                     /\ OldGroups[id] # dnew.Groups[id])
            /\ id \in DOMAIN dres.Updated
                => dres.Updated[id] = dnew.Groups[id] - OldGroups[id]
        /\ \A g \in dres.Added : g.Count = dnew.Groups[g.ID]
        /\ \A g \in dres.Removed : g.Count = OldGroups[g.ID]
        /\ IDs(dres.Added) \cap IDs(dres.Removed) = {}
        /\ IDs(dres.Added) \cap DOMAIN dres.Updated = {}
        /\ IDs(dres.Removed) \cap DOMAIN dres.Updated = {}
        /\ \A id \in DOMAIN dres.Updated : dres.Updated[id] # 0
        /\ dold = Nil => (dres.Removed = {} /\ DOMAIN dres.Updated = {})

\* C13 witness: a comparison with one group added, one removed, one whose
\* count changed.
C13_Witness ==
    /\ dres # Nil
    /\ dres.Added # {}
    /\ dres.Removed # {}
    /\ DOMAIN dres.Updated # {}

\* ---- C14
\* C14: the change-set the orchestrator commits with a snapshot S of host h
\* is Compare(P, S), P being the snapshot of h in the bundle in place
\* immediately before the commit (none if it has none).
C14_ChangeFromPrecedingSnapshot ==
    [][(wpc[Processor] = "loaded" /\ wpc'[Processor] = "stored")
        => LET c == wop[Processor]
           IN  c.changeSet
                = Compare(GetSnapshot(current, c.snapshot.Host), c.snapshot)]_vars

\* ---- C15
\* C15: for each host, UpdateSnapshot is called with the source's snapshots
\* in the order the source sent them, each call beginning after the call
\* for the one before has returned and been recorded: the n-th snapshot of a
\* host begins when lastSnapshots holds the (n-1)-th (none for the first)
\* and no store call of the processing task is running.
C15_CommitInEmissionOrder ==
    [][(wpc[Processor] = "idle" /\ wpc'[Processor] = "loaded")
        => LET S == wop'[Processor].snapshot
               P == LastSnapshot(S.Host)
           IN  /\ IF S.TakenAt = 1 THEN P = Nil
                  ELSE P # Nil /\ P.TakenAt = S.TakenAt - 1
               /\ wsubs[Processor] = <<>>]_vars

\* C15 witness: the second snapshot of source s1 is being committed while
\* source s2's snapshots went through the fan-in in between.
C15_Witness ==
    /\ wpc[Processor] = "loaded"
    /\ wop[Processor].snapshot = Emission("s1", 2)
    /\ LastSnapshot("a") = Emission("s1", 1)
    /\ LastSnapshot("b") # Nil

\* ---- C16
\* C16 as stated: what Start returns is the first source error or the
\* cancellation reason of a cancelled context (so it has not returned while
\* no source has failed and the context is not cancelled).
C16_ReturnsErrorOrCancellation ==
    startRet.returned =>
        \/ startRet.err = CtxErr /\ ctxDone
        \/ errLog # <<>> /\ startRet.err = errLog[1]

\* C16 amended: what Start returns is the first error a source's goroutine
\* sent, or the cancellation reason of a cancelled context, or nil once
\* every source has returned, errCh is closed and no error was sent.
C16_ReturnsErrorCancellationOrNil ==
    startRet.returned =>
        \/ startRet.err = CtxErr /\ ctxDone
        \/ errLog # <<>> /\ startRet.err = errLog[1]
        \/ /\ startRet.err = Nil
           /\ errClosed
           /\ errLog = <<>>
           /\ \A src \in Sources : spc[src] = "done"

\* C16 witness: both sources returned nil, the context is not cancelled, and
\* Start has returned nil.
C16_Witness ==
    /\ startRet = Returned(Nil)
    /\ ~ctxDone
    /\ \A src \in Sources : spc[src] = "done" /\ sret[src] = Nil

\* ---- C17
\* C17: when the context is cancelled while no source has failed or finished
\* (each source is running or has returned ctx.Err()), Start returns
\* ctx.Err() itself.
C17_CancellationReasonOnly ==
    (/\ startRet.returned
     /\ ctxDone
     /\ \A src \in Sources : spc[src] = "running" \/ sret[src] = CtxErr)
        => startRet.err = CtxErr

\* ---- C18
\* C18 as stated: while paused, from the return of SetPaused(true) until
\* SetPaused(false) is called, no source is triggered on behalf of a timer
\* tick: no step of a tick's triggerAllSources happens in a paused state.
C18_NoTickTriggerWhilePaused ==
    [][(cpc = "tickTrigger" /\ paused) => ctodo' = ctodo]_vars

\* C18, amended: a tick makes the controller trigger the sources only if its
\* IsPaused check, made when the tick is taken, finds the orchestrator not
\* paused, so a tick taken while paused triggers no source; a source's
\* refresh channel is filled only inside triggerAllSources,
\* which while paused can be running only for a manual refresh or for a
\* check (tick or startup) that read the flag before the pause.
C18_TickCheckedWhenTaken ==
    /\ [][(cpc' = "tickTrigger" /\ cpc # "tickTrigger")
              => (cpc = "wait" /\ ~paused)]_vars
    /\ [][(\E src \in Sources : hrefresh'[src] > hrefresh[src])
              => cpc \in Triggering]_vars
    /\ [][(cpc' = "manualTrigger" /\ cpc # "manualTrigger")
              => (cpc = "wait" /\ orefresh > 0)]_vars

\* C18 witness: the controller has taken a tick while paused and ignored it;
\* it is back in its select and no source has been triggered at all.
C18_Witness ==
    /\ paused
    /\ "ignored" \in hist
    /\ "manual" \notin hist
    /\ cpc = "wait"
    /\ \A src \in Sources : hrefresh[src] = 0 /\ ~began[src]

\* ---- C19
\* C19: after a TriggerRefresh call, paused or not, every HTTP source
\* eventually begins a collection cycle (one that begins after the call),
\* also when the call came before the source's Collect reached its select.
C19_ManualTriggerServed ==
    \A src \in Sources : (owed[src] = "owed") ~> (owed[src] = "served")

\* C19 witness: TriggerRefresh was called before some Collect was waiting,
\* no tick was ever taken, the orchestrator is paused, and every source has
\* begun a cycle after the last call.
C19_Witness ==
    /\ paused
    /\ "early" \in hist
    /\ "tick" \notin hist
    /\ \A src \in Sources : owed[src] = "served"

\* ---- C20
\* C20: when refreshController starts it goes through triggerAllSources,
\* for all the sources, exactly if IsPaused answers false at that moment,
\* and otherwise goes straight to its select; this initial trigger happens
\* once and before the controller takes any tick; and once it is under way
\* every HTTP source eventually begins a collection cycle, whether or not a
\* tick or a TriggerRefresh call ever comes.
C20_InitialTriggerUnlessPaused ==
    /\ [][(cpc = "start" /\ cpc' # "start")
              => /\ (cpc' = "initTrigger" /\ ctodo' = SourceOrder) <=> ~paused
                 /\ paused => (cpc' = "wait" /\ hrefresh' = hrefresh)]_vars
    /\ [][(cpc' = "initTrigger") => (cpc \in {"start", "initTrigger"})]_vars
    /\ [](cpc \in {"start", "initTrigger"} => "tick" \notin hist)
    /\ (cpc = "initTrigger") ~> (\A src \in Sources : began[src])

\* C20 witness: without any tick taken and without any TriggerRefresh call,
\* every source has begun its first collection cycle.
C20_Witness ==
    /\ hist = {}
    /\ cpc = "wait"
    /\ \A src \in Sources : began[src]

\* ---- C21
\* A step of triggerAllSources: the next source's TriggerRefresh is called.
TriggerStep == ctodo # <<>> /\ ctodo' = Tail(ctodo)

\* C21 as stated: with interval 0 every triggering of the sources is done
\* for a manual TriggerRefresh call.
C21_OnlyManualTriggers ==
    [][(~ticking /\ TriggerStep) => cpc = "manualTrigger"]_vars

\* C21, amended: with interval 0 no tick is ever taken, and the sources are
\* triggered only by the initial trigger at the controller's start (made
\* once, if not paused then) and for manual TriggerRefresh calls: the
\* controller enters triggerAllSources from its select only by taking a
\* signal from o.refreshCh, which only TriggerRefresh puts there.
C21_OnlyInitialAndManualTriggers ==
    /\ [](~ticking => ("tick" \notin hist /\ cpc # "tickTrigger"))
    /\ [](orefresh > 0 => "manual" \in hist)
    /\ [][(~ticking /\ TriggerStep)
              => cpc \in {"initTrigger", "manualTrigger"}]_vars
    /\ [][(~ticking /\ cpc = "wait" /\ cpc' # "wait")
              => (cpc' = "manualTrigger" /\ orefresh' = orefresh - 1
                    /\ "manual" \in hist)]_vars

\* C21 witness: interval 0, started paused so that no initial trigger was
\* made, and the first source has just been triggered for a manual call.
C21_Witness ==
    /\ ~ticking
    /\ cpc = "manualTrigger"
    /\ ctodo = Tail(SourceOrder)
    /\ \A src \in Sources : ~began[src]
    /\ hrefresh[SourceOrder[2]] = 0

\* ---- C22
\* C22: TriggerRefresh, on the orchestrator and on an HTTP source, can
\* always be carried out whatever its channel holds (it never waits); no
\* trigger channel ever holds more than one signal; a call that finds its
\* channel full leaves it as it is; and every run of triggerAllSources for
\* a manual call and every collection cycle takes exactly one signal out of
\* its channel, so that a dropped call adds no run and no cycle of its own.
C22_TriggersCoalesce ==
    /\ [](orefresh \in 0..RefreshCap)
    /\ [](\A src \in Sources : hrefresh[src] \in 0..RefreshCap)
    /\ [](ENABLED ManualTrigger)
    /\ [](cpc \in Triggering => ENABLED TriggerSource)
    /\ [][(orefresh = RefreshCap) => (orefresh' <= orefresh)]_vars
    /\ [][(TriggerStep /\ hrefresh[Head(ctodo)] = RefreshCap)
              => hrefresh' = hrefresh]_vars
    /\ [][(cpc # "manualTrigger" /\ cpc' = "manualTrigger")
              => orefresh' = orefresh - 1]_vars
    /\ [][\A src \in Sources :
              (hcpc[src] # "collecting" /\ hcpc'[src] = "collecting")
                  => hrefresh'[src] = hrefresh[src] - 1]_vars

\* C22 witness: an orchestrator TriggerRefresh call and a source's
\* TriggerRefresh call have each found a signal pending and been dropped,
\* and each channel holds its one signal.
C22_Witness ==
    /\ "dropped" \in hist
    /\ "hdropped" \in hist
    /\ orefresh = RefreshCap
    /\ \E src \in Sources : hrefresh[src] = RefreshCap

\* ---- C23
\* collectAll returns: its workers are through and Collect is back in its
\* select.
CycleEnds == hstate = "join" /\ hstate' = "wait"

\* C23 as stated: when a cycle ends every target has been fetched; a target
\* whose fetch failed has an error recorded and no snapshot emitted, a target
\* whose fetch succeeded has no error recorded and exactly one snapshot
\* emitted; so the error map holds exactly the targets that failed.
C23_EveryFetchAccounted ==
    [][CycleEnds =>
          \A t \in TargetSet :
              /\ fetched[t] # "none"
              /\ fetched[t] = "fail" => (herrors[t] # Nil /\ sentNow[t] = 0)
              /\ fetched[t] = "ok" => (herrors[t] = Nil /\ sentNow[t] = 1)]_vars

\* C23, amended: what C23 states holds of every cycle that ends with the
\* scope not cancelled. In any cycle a target whose fetch failed has its
\* error recorded and no snapshot emitted, a target whose fetch succeeded
\* has no error recorded and at most one snapshot emitted, and every
\* snapshot in the channel carries a target as its host; in a cancelled
\* cycle a target may be left unfetched and a fetched snapshot unsent.
C23_FetchAccountedUnlessCancelled ==
    /\ [][CycleEnds =>
            \A t \in TargetSet :
                /\ fetched[t] = "fail" => (herrors[t] # Nil /\ sentNow[t] = 0)
                /\ fetched[t] = "ok" => (herrors[t] = Nil /\ sentNow[t] <= 1)
                /\ ~ctxDone => /\ fetched[t] # "none"
                               /\ fetched[t] = "ok" => sentNow[t] = 1]_vars
    /\ [](\A t \in TargetSet : sentNow[t] <= 1)
    /\ [](\A t \in TargetSet : sentNow[t] = 1 => fetched[t] = "ok")
    /\ [](\A i \in 1..Len(snapCh) : snapCh[i].Host \in TargetSet)

\* C23 witness: a cycle has ended, not cancelled, in which the first target
\* failed and the second succeeded: one error, one snapshot.
C23_Witness ==
    /\ hstate = "wait"
    /\ ~ctxDone
    /\ fetched[HTargets[1]] = "fail" /\ herrors[HTargets[1]] # Nil
    /\ sentNow[HTargets[1]] = 0
    /\ fetched[HTargets[2]] = "ok" /\ herrors[HTargets[2]] = Nil
    /\ sentNow[HTargets[2]] = 1

C25_CollectsWithoutTrigger ==
    (hstate = "wait" /\ ~ctxDone /\ \A t \in TargetSet : herrors[t] = Nil)
        => \A t \in TargetSet : sentNow[t] = 1

\* ---- C26
\* C26, for the HTTP source: Collect closes its output channel once, when it
\* returns and not before; no worker is running then, and no snapshot is
\* ever sent on the closed channel, also after a cycle cut short by the
\* cancellation. (The file source's half is FileClosesOnce, in SpecFile.)
C26_ClosedOnceNoLateSend ==
    /\ [](snapClosed <= 1)
    /\ [](snapClosed = 1 <=> hstate = "returned")
    /\ [](hstate = "returned" => \A k \in Workers : wk[k] = NoWorker)
    /\ [](~lateSend)
    /\ [][snapClosed = 1 => Len(snapCh') <= Len(snapCh)]_vars

\* C26 witness: Collect has returned and closed the channel after a
\* cancelled cycle in which a worker dropped the snapshot it had fetched.
C26_Witness ==
    /\ hstate = "returned"
    /\ snapClosed = 1
    /\ \E t \in TargetSet : fetched[t] = "ok" /\ sentNow[t] = 0

\* ---- C27
\* the store's error for the target, Nil when there is no entry
StoredError(h) ==
    IF h \in DOMAIN current.errors THEN current.errors[h] ELSE Nil

\* C27: the target fails on its first poll and succeeds on its second. Once
\* the monitor has run after the failed poll (it read the source's errors
\* after that poll and its UpdateError has returned) and before the second
\* poll, the store has the target's error and no snapshot of it; and from
\* the commit of the second poll's snapshot on (the processor has recorded
\* it as the target's last snapshot) the store has no error for the target,
\* has that snapshot, and has a change-set adding every group of it.
C27_ErrorThenRecovery ==
    /\ (pollLog = <<"fail">> /\ mread = 1 /\ currentErrors = Nil
            /\ wpc[Monitor] = "idle")
           => (StoredError(RecTarget) # Nil
                   /\ GetSnapshot(current, RecTarget) = Nil)
    /\ (pollLog = <<"fail", "ok">> /\ LastSnapshot(RecTarget) # Nil)
           => /\ StoredError(RecTarget) = Nil
              /\ GetSnapshot(current, RecTarget) = LastSnapshot(RecTarget)
              /\ GetChangeSet(current, RecTarget) # Nil
              /\ GetChangeSet(current, RecTarget).Added =
                     {Group(LastSnapshot(RecTarget), id) : id \in DOMAIN RecGroups}

\* ---- C28
\* every task Start launched has returned and the channels are closed
AllStopped ==
    /\ hstate = "returned"
    /\ \A k \in Workers : wk[k] = NoWorker
    /\ snapClosed = 1
    /\ fpc = "returned"
    /\ mergedClosed
    /\ ppc = "returned"
    /\ kpc = "returned"
    /\ epc = "returned"

\* C28: once the scope is cancelled, the source's Collect and its workers,
\* the fan-in goroutine, the processing loop, the refresh controller and the
\* error monitor all eventually return, the source's output channel and the
\* merged channel get closed, and things stay so: no task is left waiting on
\* a channel.
C28_AllTasksStop ==
    /\ ctxDone ~> AllStopped
    /\ [][AllStopped => AllStopped']_vars

\* C28 witness: everything has stopped after a cancellation that came in
\* the middle of a cycle, a worker dropping the snapshot it had fetched.
C28_Witness ==
    /\ AllStopped
    /\ ctxDone
    /\ \E t \in TargetSet : fetched[t] = "ok" /\ sentNow[t] = 0

\* ---- C29
\* a pattern of the list is malformed
HasBadPattern == \E i \in 1..Len(patterns) : patterns[i] = BadPattern
\* the paths the patterns match on the disk as it is
Matched ==
    {p \in Paths :
        \E i \in 1..Len(patterns) :
           \E j \in 1..Len(Glob(patterns[i], disk)) :
              Abs(Glob(patterns[i], disk)[j]) = p}
\* the paths listed in files
Listed == {gfiles[i] : i \in 1..Len(gfiles)}
\* The file source closes its channel exactly once, when Collect returns, and
\* sends nothing on it afterwards.
FileClosesOnce ==
    /\ gclosed = (IF gpc = "returned" THEN 1 ELSE 0)
    /\ ~glate
    /\ (gpc = "returned") = (gret # NotReturned)

\* C29 as the specification states it: whenever a one-shot Collect has
\* returned, it returned no error, every listed file was read exactly once
\* and each one that could be read gave one snapshot.
C29_OneShotNeverFails ==
    (~follow /\ gpc = "returned")
    => /\ gret = Returned(Nil)
       /\ \A p \in Paths :
            /\ gread[p] = (IF p \in Listed THEN 1 ELSE 0)
            /\ gemit[p] = (IF gres[p] = "sent" THEN 1 ELSE 0)

\* C29, amended: a one-shot Collect lists each matched path once, reads no
\* path twice, sends at most one snapshot per read, and closes the channel
\* once when it returns. With well-formed patterns it returns nil or, only
\* after cancellation, the context's error; when it returns nil every listed
\* path was read exactly once, each successful read gave exactly one snapshot
\* and each failed read none. A malformed pattern makes it return a "finding
\* files" error without reading anything; an empty list gives nil and no
\* snapshot.
C29_OneShotScan ==
    /\ [](/\ FileClosesOnce
          /\ ~follow =>
               /\ \A i, j \in 1..Len(gfiles) : gfiles[i] = gfiles[j] => i = j
               /\ \A p \in Paths :
                    /\ gread[p] <= (IF p \in Listed THEN 1 ELSE 0)
                    /\ gemit[p] <= gread[p]
                    /\ gemit[p] = 1 => gres[p] = "sent"
          /\ (~follow /\ gpc = "returned") =>
               /\ HasBadPattern =>
                    /\ gret = Returned(GlobErr(BadPattern))
                    /\ \A p \in Paths : gread[p] = 0
               /\ ~HasBadPattern => gret \in {Returned(Nil), Returned(CtxErr)}
               /\ gret = Returned(CtxErr) => ctxDone
               /\ (~HasBadPattern /\ gfiles = <<>>) =>
                    /\ gret = Returned(Nil)
                    /\ \A p \in Paths : gemit[p] = 0
               /\ gret = Returned(Nil) =>
                    \A p \in Paths :
                       /\ gread[p] = (IF p \in Listed THEN 1 ELSE 0)
                       /\ p \in Listed => gres[p] \in {"sent", "failed"}
                       /\ gemit[p] = (IF gres[p] = "sent" THEN 1 ELSE 0))
    /\ [][(gpc = "start" /\ gpc' = "scan") =>
            {gfiles'[i] : i \in 1..Len(gfiles')} = Matched]_vars

\* C29 witness: a one-shot Collect over two patterns matching the same file
\* has returned nil, one file sent and the other skipped as unreadable.
C29_Witness ==
    /\ ~follow
    /\ gpc = "returned"
    /\ gret = Returned(Nil)
    /\ patterns = <<"/d/*", "f1">>
    /\ Len(gfiles) = 2
    /\ gres["/d/f1"] = "sent"
    /\ gres["/d/f2"] = "failed"

\* ---- C30
\* C30: when a follow-mode scan has gone through its files, every listed
\* file that was there and whose size or mod-time differed from the last
\* observation of its path (or that had none) was read once and gave one
\* snapshot, and every file found unchanged was not read and gave none.
C30_ChangedFilesEmitted ==
    (follow /\ gpc = "wait")
    => \A p \in Listed :
          /\ gres[p] = "same" => (gread[p] = 0 /\ gemit[p] = 0)
          /\ gres[p] \notin {"same", "gone"} =>
                (gread[p] = 1 /\ gemit[p] = 1)

\* ---- C32
\* C32: when Parse has returned, the counts of the snapshot's groups add up
\* to the number of goroutine headers in the dump, whatever the state token
\* of a header and whatever the lines between the headers.
C32_CountsAddUpToRecords ==
    lpc = "done" => TotalGoroutines(sgroups) = recs

\* ---- C31
\* C31: in follow mode, when a scan comes to a listed file that is there and
\* whose last read failed, it reads the file again, whether or not its size
\* and mod-time have changed since.
C31_FailedReadTriedAgain ==
    [][(/\ follow
        /\ gpc = "scan"
        /\ gidx <= Len(gfiles)
        /\ ~ctxDone
        /\ (gidx' # gidx \/ gpc' # gpc)
        /\ glast[gfiles[gidx]] = "failed"
        /\ disk[gfiles[gidx]] # 0)
       => gpc' = "read"]_vars

\* ---- C33
\* the line the step scans is handled as a line of the loop's own turn is:
\* a header starts a record and a blank line ends the record under way
LineRecognized ==
    /\ HeaderMatches(lline') =>
          /\ inGoroutine'
          /\ currentStack' = <<>>
          /\ currentState' = ParseState(lline'.state)
          /\ currentWait' = lline'.wait
          /\ sgroups' = (IF inGoroutine THEN Saved ELSE sgroups)
    /\ (lline' = BlankLine /\ inGoroutine) =>
          /\ ~inGoroutine'
          /\ sgroups' = Saved

\* C33: a header or a blank line is recognized wherever it stands, also
\* directly after a function line that has no file:line of its own.
C33_LineAfterMalformedRecognized ==
    [][(nread' = nread + 1 /\ lpc # "created") => LineRecognized]_vars

\* ---- C37
\* C37: the line after a created-by line gives the created-by location if it
\* is an indented file:line; if it is not, no created-by frame is recorded
\* and the line is handled as any line is: a header starts a record, a blank
\* line ends the one under way.
C37_CreatedByOnlyPeeks ==
    [][(nread' = nread + 1 /\ lpc = "created") =>
          IF FileLineMatches(lline')
          THEN currentCreatedBy' = Frame(held, lline')
          ELSE /\ currentCreatedBy' = currentCreatedBy
               /\ LineRecognized]_vars

\* ---- C34
\* the ids of the groups that have the state and the trace of the goroutine
\* being collected
SameGroup ==
    {i \in DOMAIN sgroups :
        sgroups[i].State = currentState /\ sgroups[i].Trace = currentStack}

\* C34: whenever a goroutine is added to the snapshot, it joins the one group
\* that has its state and its trace, whose count goes up by one, whose wait
\* durations get the goroutine's wait string at their end if it is not empty
\* and whose created_by stays that of its first goroutine; if there is no
\* such group it makes a new one, of count one, with its own created_by. No
\* other group changes, no two groups have the same state and trace, and no
\* group has more wait durations than goroutines.
C34_GroupsFoldByStateAndTrace ==
    /\ [](\A i, j \in DOMAIN sgroups :
             /\ sgroups[i].Count >= 1
             /\ Len(sgroups[i].WaitDurations) <= sgroups[i].Count
             /\ (sgroups[i].State = sgroups[j].State
                 /\ sgroups[i].Trace = sgroups[j].Trace) => i = j)
    /\ [][sgroups' # sgroups =>
            /\ \A i \in DOMAIN sgroups \ SameGroup :
                  i \in DOMAIN sgroups' /\ sgroups'[i] = sgroups[i]
            /\ IF SameGroup # {}
               THEN /\ DOMAIN sgroups' = DOMAIN sgroups
                    /\ \A i \in SameGroup :
                          /\ sgroups'[i].Count = sgroups[i].Count + 1
                          /\ sgroups'[i].CreatedBy = sgroups[i].CreatedBy
                          /\ sgroups'[i].WaitDurations =
                                IF currentWait = ""
                                THEN sgroups[i].WaitDurations
                                ELSE Append(sgroups[i].WaitDurations,
                                            currentWait)
               ELSE \E n \in DOMAIN sgroups' \ DOMAIN sgroups :
                       /\ DOMAIN sgroups' = DOMAIN sgroups \cup {n}
                       /\ sgroups'[n].State = currentState
                       /\ sgroups'[n].Trace = currentStack
                       /\ sgroups'[n].Count = 1
                       /\ sgroups'[n].CreatedBy = currentCreatedBy
                       /\ sgroups'[n].WaitDurations =
                             IF currentWait = "" THEN <<>>
                             ELSE <<currentWait>>]_vars

\* C34 witness: Parse has returned a group of two goroutines, the first with
\* a wait string and a created-by frame, the second with neither.
C34_Witness ==
    /\ lpc = "done"
    /\ currentCreatedBy = Nil
    /\ currentWait = ""
    /\ \E i \in DOMAIN sgroups :
          /\ sgroups[i].Count = 2
          /\ sgroups[i].WaitDurations = <<"5 minutes">>
          /\ sgroups[i].CreatedBy = Frame(CreatedLine, LocLine)

\* ---- C35
\* C35: a target is fetched only inside a cycle and only if it has not been
\* fetched in that cycle; a cycle that ends with the scope not cancelled has
\* fetched every target, with every worker gone, nothing left to fetch and
\* nothing left to send; and a trigger is consumed only while no worker of
\* an earlier cycle exists, so that two cycles never overlap.
C35_OneFetchPerTargetPerCycle ==
    /\ [][\A k \in Workers :
             (wk[k].pc = "fetch" /\ wk'[k] # wk[k]) =>
                 /\ hstate \in {"queue", "join"}
                 /\ fetched[wk[k].target] = "none"
                 /\ fetched'[wk[k].target] # "none"]_vars
    /\ [][CycleEnds =>
             /\ \A k \in Workers : wk[k].pc = "exit"
             /\ workCh = <<>>
             /\ ~ctxDone => \A t \in TargetSet : fetched[t] # "none"]_vars
    /\ [][trig' < trig =>
             /\ hstate = "wait"
             /\ hstate' = "queue"
             /\ \A k \in Workers : wk[k] = NoWorker]_vars
    /\ [](hstate \in {"start", "wait", "returned"} =>
             \A k \in Workers : wk[k] = NoWorker)

\* C35 witness: the second of two triggers waits in the channel while the
\* cycle of the first is still sending, every target fetched.
C35_Witness ==
    /\ hstate = "join"
    /\ trig = 1
    /\ ~ctxDone
    /\ \A t \in TargetSet : fetched[t] # "none"
    /\ \E k \in Workers : wk[k].pc = "send"

\* ---- C38
\* a change-set applied to a mapping from group id to count: the removed
\* groups dropped, the added groups inserted, the deltas added
ApplyChanges(counts, cs) ==
    [id \in (DOMAIN counts \ {g.ID : g \in cs.Removed})
            \cup {g.ID : g \in cs.Added} |->
        IF \E g \in cs.Added : g.ID = id
        THEN (CHOOSE g \in cs.Added : g.ID = id).Count
        ELSE counts[id] + (IF id \in DOMAIN cs.Updated THEN cs.Updated[id]
                           ELSE 0)]

\* C38: Compare(old, new) applied to old's mapping from group id to count
\* (empty when old is nil) gives new's mapping.
C38_ApplyingCompareGivesNew ==
    dres # Nil =>
        ApplyChanges(IF dold = Nil THEN EmptyMap ELSE dold.Groups, dres)
            = dnew.Groups

\* C38 witness: a comparison between two snapshots that share one group
\* with the same count and one with different counts, new having one more.
C38_Witness ==
    /\ dres # Nil
    /\ dold # Nil
    /\ dres.Added # {}
    /\ dres.Removed = {}
    /\ DOMAIN dres.Updated # {}
    /\ \E id \in DOMAIN dold.Groups \cap DOMAIN dnew.Groups :
          dold.Groups[id] = dnew.Groups[id]

\* ---- C39
\* the refresh signals still on their way to BurstSource: in its channel, in
\* the hands of the controller, in the orchestrator's channel
OnTheWay ==
    hrefresh[BurstSource]
    + (IF \E i \in 1..Len(ctodo) : ctodo[i] = BurstSource THEN 1 ELSE 0)
    + orefresh

\* C39 as stated: the TriggerRefresh calls made during one cycle of a source
\* make it begin at most one cycle after that one.
C39_AtMostOneLaterCycle == later <= 1

\* C39, amended: TriggerRefresh calls made during one cycle of a source make
\* it begin at most three cycles after that one, one for each place a signal
\* can wait in: the source's channel, the controller between its receive and
\* its send, the orchestrator's channel. The cycles begun and the signals on
\* their way never add up to more than three.
C39_AtMostThreeLaterCycles ==
    /\ OnTheWay <= 3
    /\ later + OnTheWay <= 3
    /\ bphase = "during" => later = 0

\* C39 witness: after the cycle during which the calls were made, the source
\* has begun a third cycle and nothing is left on the way.
C39_Witness ==
    /\ bphase = "over"
    /\ later = 3
    /\ OnTheWay = 0
    /\ "dropped" \in hist

\* ---- C36
\* C36: with no cancellation, every snapshot a source sends is committed to
\* the store by UpdateSnapshot exactly once, also after Start returned nil
\* because every source finished: each commit of the processing task puts
\* in place the snapshot that follows the one the store holds for that host
\* (the first if it holds none), so none is committed twice and none is
\* skipped, and the n-th snapshot a source sent is eventually in place or
\* behind the one in place.
C36_EverySnapshotCommittedOnce ==
    /\ [][(wpc[Processor] = "loaded" /\ wpc'[Processor] = "stored")
          => LET S == wop[Processor].snapshot
                 P == GetSnapshot(current, S.Host)
             IN  /\ S.TakenAt = IF P = Nil THEN 1 ELSE P.TakenAt + 1
                 /\ GetSnapshot(current', S.Host) = S]_vars
    /\ \A src \in Sources : \A n \in 1..MaxEmit :
        (emitted[src] >= n)
            ~> (/\ GetSnapshot(current, SourceHost(src)) # Nil
                /\ GetSnapshot(current, SourceHost(src)).TakenAt >= n)

\* C36 witness: Start has returned nil, every source having finished, and the
\* second snapshot of source s1 is committed after that.
C36_Witness ==
    /\ startRet = Returned(Nil)
    /\ wpc[Processor] = "stored"
    /\ wop[Processor].snapshot = Emission("s1", 2)
    /\ GetSnapshot(current, "a") = Emission("s1", 2)
    /\ schan["s2"] # <<>>

\* ---- C40
\* no HTTP source is in a cycle and none has a signal in its trigger channel
NoCyclePending ==
    \A src \in Sources : hcpc[src] # "collecting" /\ hrefresh[src] = 0

\* the controller is in its select and no manual refresh waits in
\* o.refreshCh
ControllerIdle == cpc = "wait" /\ orefresh = 0

\* C40 as stated: while the orchestrator is paused, once no cycle is in
\* progress or pending in a source's trigger channel and the file source
\* is between two scans, a step that leaves it paused and issues no manual
\* trigger starts no cycle, leaves no signal in a trigger channel, starts no
\* scan of the file source and sends no snapshot.
C40_NoSourceCollectsWhilePaused ==
    [][(/\ paused /\ paused'
        /\ NoCyclePending
        /\ gpc = "wait"
        /\ orefresh' <= orefresh)
        => /\ NoCyclePending'
           /\ gpc' = "wait"
           /\ gout' = gout]_vars

\* C40 amended: while the orchestrator is paused, once the controller is in
\* its select with no manual refresh waiting and no HTTP source is in a
\* cycle or has a signal in its trigger channel, a step that leaves it paused
\* and issues no manual trigger leaves all of this as it is: no HTTP source
\* is triggered and none begins a cycle (a tick is taken and ignored).
C40_HTTPSourcesHeldWhilePaused ==
    [][(/\ paused /\ paused'
        /\ ControllerIdle
        /\ NoCyclePending
        /\ orefresh' = 0)
        => /\ ControllerIdle'
           /\ NoCyclePending']_vars

\* C40 witness: paused, the controller in its select having ignored a tick,
\* no HTTP cycle in progress or pending, while the file source, on a tick of
\* its own, has read the rewritten f1 and is about to send its snapshot.
C40_Witness ==
    /\ paused
    /\ ControllerIdle
    /\ NoCyclePending
    /\ "ignored" \in hist
    /\ gpc = "send"
    /\ gsnap.Stamp = 2

\* ---- C7
\* C7: a notification never waits for a subscriber: the loop takes the
\* subscriber list, and each of its steps is enabled whatever the channels
\* hold, moves on to the next subscriber, appends the update to the channel
\* at hand if it has free capacity and leaves it as it is if it is full,
\* and touches no other channel; the call returns only when the list is
\* through.
C7_NonBlockingSend ==
    /\ [](\A t \in Writers :
            wpc[t] = "notify" => ENABLED (WSend(t) \/ WRUnlock(t)))
    /\ [][\A t \in Writers :
            /\ (wpc[t] = "stored" /\ wpc'[t] = "notify")
                => wsubs'[t] = subscribers
            /\ (wpc[t] = "notify" /\ wsubs'[t] # wsubs[t])
                => LET ch == Head(wsubs[t])
                       u == UpdateOf(wop[t])
                   IN  /\ wsubs'[t] = Tail(wsubs[t])
                       /\ chans'[ch] = IF Len(chans[ch]) < ChanCap
                                       THEN Append(chans[ch], u)
                                       ELSE chans[ch]
                       /\ \A o \in Chans \ {ch} : chans'[o] = chans[o]
            /\ (wpc[t] = "notify" /\ wpc'[t] = "idle")
                => wsubs[t] = <<>>]_vars

\* C7 witness: a notification loop is through both subscribers; ch1 was
\* full and missed the update, ch2 after it got it.
C7_Witness ==
    \E t \in Writers :
        /\ wpc[t] = "notify" /\ wsubs[t] = <<>>
        /\ subscribers = <<"ch1", "ch2">>
        /\ Len(chans["ch1"]) = ChanCap
        /\ UpdateOf(wop[t]) \notin Range(chans["ch1"])
        /\ chans["ch2"] # <<>>
        /\ chans["ch2"][Len(chans["ch2"])] = UpdateOf(wop[t])

\* ---- C8
\* no channel that is not subscribed gets an update in this step
NoSendToUnsubscribed ==
    \A ch \in Chans :
        ch \notin Range(subscribers) => Len(chans'[ch]) <= Len(chans[ch])

C4_ReadOneBundle == rpc = "done" => rview \in rseen

\* C4 witness: a bundle was stored during the read, and the read returned
\* the one before it.
C4_Witness ==
    /\ rpc = "done"
    /\ Cardinality(rseen) > 1
    /\ rview # current
    /\ rview \in rseen

====
